---- MODULE Spec2Model ----
(***************************************************************************)
(* FlowDocument (a rich-text document model layered on a replicated        *)
(* sequence store) and its local references.                               *)
(*                                                                         *)
(* The document is a sequence of position units.  A Text segment of n      *)
(* characters occupies n consecutive units, a marker occupies one unit.    *)
(* The flag `first` marks the unit that starts a segment, so the segments  *)
(* of the store are the maximal runs "first, not first, not first, ...".   *)
(* A segment is named by its ordinal in the sequence (1, 2, ...); the      *)
(* value 0 stands for the `undefined` segment (endOfTextSegment).          *)
(***************************************************************************)
EXTENDS Integers, Sequences, FiniteSets, TLC

VARIABLES
    doc,       \* the local sequence: Seq of units
    refs,      \* the LocalReference objects alive: handle -> reference or NoRef
    registry,  \* handles of the references registered with the merge tree
    last,      \* what the last call was, what it submitted and returned
    attached,  \* whether submitted groups are sent to the remote replica
    outbox,    \* group messages in flight to the remote replica
    replica,   \* the remote replica's sequence
    rexp,      \* the local sequence as of the call whose message the replica processed last
    caret,     \* the Caret's fields startRef and endRef: the handles of its two references
    dom,       \* the browser: window selection, event listeners, animation frames, focus
    channel    \* a ChannelDeltaConnection: its fields _handler and _connected

vars == <<doc, refs, registry, last, attached, outbox, replica, rexp, caret, dom, channel>>

-----------------------------------------------------------------------------
(* Bounds of the model *)

MaxLen == 4
MaxOutbox == 1
MaxFrames == 1
MaxCaretLen == 2
MaxCssLen == 2
MaxTileLen == 3

\* a tag range takes two units, so at most this many pairs fit
MaxIds == MaxLen \div 2

Chars == {"A", "B"}
Texts == {<<"A", "B">>}
TagLists == {<<"b">>, <<"i", "b">>}
Ids == 1..MaxIds

\* the references a Caret holds: startRef and endRef
Handles == {1, 2}

-----------------------------------------------------------------------------
(* DocSegmentKind *)

KindText == "text"
KindParagraph == "<p>"
KindLineBreak == "<br>"
KindBeginTags == "<t>"
KindInclusion == "<?>"
KindEndTags == "</>"
KindEndOfText == "eot"

\* const endOfTextSegment = undefined
endOfTextSegment == 0

NoId == [prefix |-> "", n |-> 0]

\* getCss(segment).classList of a segment without the property: no class
NoClasses == {}

TextUnit(c, f) ==
    [kind |-> KindText, ch |-> c, mid |-> NoId, tags |-> <<>>, first |-> f, css |-> NoClasses]

\* the units of one new Text segment
TextSegment(t) == [i \in 1..Len(t) |-> TextUnit(t[i], i = 1)]

\* new Marker(Tile | NestBegin), properties { ...tagsProperties, tags, id: `begin-${id}` }
BeginMarker(id, tags) ==
    [kind |-> KindBeginTags, ch |-> "", mid |-> [prefix |-> "begin", n |-> id],
     tags |-> tags, first |-> TRUE, css |-> NoClasses]

\* new Marker(Tile | NestEnd), properties { ...tagsProperties, id: `end-${id}` }
EndMarker(id) ==
    [kind |-> KindEndTags, ch |-> "", mid |-> [prefix |-> "end", n |-> id],
     tags |-> <<>>, first |-> TRUE, css |-> NoClasses]

-----------------------------------------------------------------------------
(* The sequence store (merge tree / SharedString) *)

\* get length(): mergeTree.getLength(currentSeq, clientId)
getLength(d) == Len(d)

\* ordinal of the segment that holds position p (0-based position)
SegOrdinal(d, p) == Cardinality({q \in 1..(p + 1) : d[q].first})

\* mergeTree.getPosition(segment): the position of the segment's first unit
mergeTreeGetPosition(d, seg) ==
    CHOOSE q \in 0..(Len(d) - 1) : d[q + 1].first /\ SegOrdinal(d, q) = seg

\* sharedString.getContainingSegment(position)
getContainingSegment(d, p) ==
    IF p \in 0..(Len(d) - 1)
    THEN [err |-> "none", segment |-> SegOrdinal(d, p),
          offset |-> p - mergeTreeGetPosition(d, SegOrdinal(d, p))]
    ELSE [err |-> "InvalidPosition", segment |-> endOfTextSegment, offset |-> 0]

SetFirst(s) == IF s = <<>> THEN s ELSE <<[s[1] EXCEPT !.first = TRUE]>> \o Tail(s)

\* insert the units `us` of one segment at position p, splitting the segment there
InsertUnits(d, p, us) ==
    SubSeq(d, 1, p) \o us \o SetFirst(SubSeq(d, p + 1, Len(d)))

\* remove the units of [a, b), splitting the segments at both ends
RemoveUnits(d, a, b) ==
    IF a < b
    THEN SubSeq(d, 1, a) \o SetFirst(SubSeq(d, b + 1, Len(d)))
    ELSE d

NoRef == [segment |-> -1, offset |-> 0, eot |-> FALSE]

\* LocalReference.toPosition of a reference bound to a segment
toPosition(d, r) == mergeTreeGetPosition(d, r.segment) + r.offset

\* the reference bound to the unit at position p of d
Anchor(d, p, r) ==
    [r EXCEPT !.segment = SegOrdinal(d, p),
              !.offset = p - mergeTreeGetPosition(d, SegOrdinal(d, p))]

\* a registered reference follows its unit when units are inserted at p
RefAfterInsert(d, d2, p, k, r) ==
    IF r.segment = endOfTextSegment THEN r
    ELSE LET pos == toPosition(d, r)
         IN  Anchor(d2, IF pos >= p THEN pos + k ELSE pos, r)

\* slide-on-remove: a reference whose unit is removed moves to the nearest
\* surviving unit: the next one, else the previous one, else to no segment
RefAfterRemove(d, d2, a, b, r) ==
    IF r.segment = endOfTextSegment \/ ~(a < b) THEN r
    ELSE LET pos == toPosition(d, r)
         IN  IF pos < a THEN Anchor(d2, pos, r)
             ELSE IF pos >= b THEN Anchor(d2, pos - (b - a), r)
             ELSE IF b < Len(d) THEN Anchor(d2, a, r)
             ELSE IF a > 0 THEN Anchor(d2, a - 1, r)
             ELSE [r EXCEPT !.segment = endOfTextSegment, !.offset = 0]

\* a reference that slid to no segment is on no segment's reference list any more
StillRegistered(rs, reg) == {h \in reg : rs[h].segment # endOfTextSegment}

\* createInsertSegmentOp / createRemoveRangeOp
createInsertSegmentOp(pos, seg) == [type |-> "insert", pos1 |-> pos, pos2 |-> pos, seg |-> seg]
createRemoveRangeOp(start, end) == [type |-> "remove", pos1 |-> start, pos2 |-> end, seg |-> <<>>]

\* sharedString.annotateRange(start, end, props): the op carries the properties
\* as a set of [key, value] pairs
createAnnotateRangeOp(start, end, props) ==
    [type |-> "annotate", pos1 |-> start, pos2 |-> end, seg |-> <<>>, props |-> props]

\* one segment with the properties of an annotation merged in
AnnotateUnit(u, props) ==
    LET classLists == {pr.value : pr \in {x \in props : x.key = "classList"}}
        tagsOf == {pr.value : pr \in {x \in props : x.key = "tag"}}
    IN  [u EXCEPT !.css = IF classLists = {} THEN @ ELSE CHOOSE c \in classLists : TRUE,
                  !.tags = IF tagsOf = {} THEN @ ELSE <<CHOOSE t \in tagsOf : TRUE>>]

\* annotate the units of [a, b), splitting the segments at both ends
AnnotateUnits(d, a, b, props) ==
    IF a < b
    THEN SubSeq(d, 1, a)
         \o SetFirst([i \in 1..(b - a) |-> AnnotateUnit(d[a + i], props)])
         \o SetFirst(SubSeq(d, b + 1, Len(d)))
    ELSE d

\* a registered reference keeps its position when segments are split by an
\* annotation
RefAfterAnnotate(d, d2, r) ==
    IF r.segment = endOfTextSegment THEN r ELSE Anchor(d2, toPosition(d, r), r)

\* one primitive op applied to the store state s = [doc, refs], reg the registry
ApplyOp(s, reg, op) ==
    LET d2 == IF op.type = "insert"
              THEN InsertUnits(s.doc, op.pos1, op.seg)
              ELSE IF op.type = "annotate"
              THEN AnnotateUnits(s.doc, op.pos1, op.pos2, op.props)
              ELSE RemoveUnits(s.doc, op.pos1, op.pos2)
    IN  [doc |-> d2,
         refs |-> [h \in DOMAIN s.refs |->
                     IF h \notin reg THEN s.refs[h]
                     ELSE IF op.type = "insert"
                          THEN RefAfterInsert(s.doc, d2, op.pos1, Len(op.seg), s.refs[h])
                          ELSE IF op.type = "annotate"
                          THEN RefAfterAnnotate(s.doc, d2, s.refs[h])
                          ELSE RefAfterRemove(s.doc, d2, op.pos1, op.pos2, s.refs[h])]]

\* submitGroup(ops[]): the ops of a group applied in order, as one step
RECURSIVE ApplyGroup(_, _, _)
ApplyGroup(s, reg, ops) ==
    IF ops = <<>> THEN s
    ELSE ApplyGroup(ApplyOp(s, reg, Head(ops)), reg, Tail(ops))

\* the store states a change listener sees: one after each group submitted
RECURSIVE Observed(_, _, _)
Observed(s, reg, groups) ==
    IF groups = <<>> THEN <<>>
    ELSE LET s2 == ApplyGroup(s, reg, Head(groups))
         IN  <<s2.doc>> \o Observed(s2, reg, Tail(groups))

RECURSIVE ApplyGroups(_, _, _)
ApplyGroups(s, reg, groups) ==
    IF groups = <<>> THEN s
    ELSE ApplyGroups(ApplyGroup(s, reg, Head(groups)), reg, Tail(groups))

\* the messages of the groups submitted by one call; `after` is the local
\* sequence once the call has returned
Messages(groups, after) == [i \in 1..Len(groups) |-> [ops |-> groups[i], after |-> after]]

-----------------------------------------------------------------------------
(* FlowDocument *)

\* every position from the length on taken for the end of the document
getSegmentAndOffset_Clamped(d, position) ==
    IF position >= getLength(d)
    THEN [err |-> "none", segment |-> 0, offset |-> 0]
    ELSE getContainingSegment(d, position)

\* getSegmentAndOffset(position)
getSegmentAndOffset(d, position) ==
    IF position = getLength(d)
    THEN [err |-> "none", segment |-> endOfTextSegment, offset |-> 0]
    ELSE getContainingSegment(d, position)

\* the end of the document taken for its start
getPosition_ZeroAtEnd(d, segment) ==
    IF segment = 0 THEN 0 ELSE mergeTreeGetPosition(d, segment)

\* getPosition(segment)
getPosition(d, segment) ==
    IF segment = endOfTextSegment
    THEN getLength(d)
    ELSE mergeTreeGetPosition(d, segment)

\* positions of the markers with the given id
MarkerPositions(d, mid) == {q \in 0..(Len(d) - 1) : d[q + 1].mid = mid}

\* getOppositeMarker(marker, oldPrefixLength, newPrefix): mergeTree.idToSegment[newPrefix + id]
OppositeId(mid, newPrefix) == [prefix |-> newPrefix, n |-> mid.n]

HasOpposite(d, mid, newPrefix) == MarkerPositions(d, OppositeId(mid, newPrefix)) # {}

\* getPosition(getStart(marker)) / getPosition(getEnd(marker)); `gone` gives the
\* position the store reports for a marker that is no longer in the sequence
OppositePosition(d, mid, newPrefix, gone) ==
    IF HasOpposite(d, mid, newPrefix)
    THEN getPosition(d, SegOrdinal(d, CHOOSE q \in MarkerPositions(d, OppositeId(mid, newPrefix)) : TRUE))
    ELSE gone[mid.n]

\* the test `endPos > end` in place of `!(endPos < end)`
EndTagOutside_Strict(endPos, end) == endPos > end

\* remove, beginTags case: `if (!(endPos < end))`, the end tag is outside the range
EndTagOutside(endPos, end) == ~(endPos < end)

\* the test without its negation
StartTagOutside_Unnegated(start, startPos) == start <= startPos

\* remove, endTags case: `if (!(start <= startPos))`, the start tag is outside the range
StartTagOutside(start, startPos) == ~(start <= startPos)

\* the callback of remove, visiting the segments of [p, end) in position order
RECURSIVE RemoveVisit(_, _, _, _, _, _)
RemoveVisit(d, p, end, start, ops, gone) ==
    IF p >= end THEN [start |-> start, ops |-> ops]
    ELSE LET u == d[p + 1]
         IN  IF u.kind = KindBeginTags
             THEN LET endPos == OppositePosition(d, u.mid, "end", gone)
                  IN  RemoveVisit(d, p + 1, end, start,
                          IF EndTagOutside(endPos, end)
                          THEN Append(ops, createRemoveRangeOp(endPos, endPos + 1))
                          ELSE ops,
                          gone)
             ELSE IF u.kind = KindEndTags
             THEN LET startPos == OppositePosition(d, u.mid, "begin", gone)
                  IN  IF StartTagOutside(start, startPos)
                      THEN RemoveVisit(d, p + 1, end, p + 1,
                               Append(ops, createRemoveRangeOp(start, p)), gone)
                      ELSE RemoveVisit(d, p + 1, end, start, ops, gone)
             ELSE RemoveVisit(d, p + 1, end, start, ops, gone)

\* ops.sort((left, right) => right.pos1 - left.pos1)
RECURSIVE InsertDesc(_, _)
InsertDesc(sorted, op) ==
    IF sorted = <<>> THEN <<op>>
    ELSE IF Head(sorted).pos1 >= op.pos1
         THEN <<Head(sorted)>> \o InsertDesc(Tail(sorted), op)
         ELSE <<op>> \o sorted

RECURSIVE SortDesc(_)
SortDesc(ops) ==
    IF ops = <<>> THEN <<>>
    ELSE InsertDesc(SortDesc(SubSeq(ops, 1, Len(ops) - 1)), ops[Len(ops)])

\* the ops remove(start, end) builds
RemoveOps(d, start, end, gone) ==
    LET v == RemoveVisit(d, start, end, start, <<>>, gone)
        ops == IF v.start # end
               THEN Append(v.ops, createRemoveRangeOp(v.start, end))
               ELSE v.ops
    IN  SortDesc(ops)

\* every op submitted on its own
RemoveGroups_PerOp(d, start, end, gone) ==
    [i \in 1..Len(RemoveOps(d, start, end, gone)) |-> <<RemoveOps(d, start, end, gone)[i]>>]

\* the groups remove(start, end) submits: one groupOperation holding all the ops
RemoveGroups(d, start, end, gone) == <<RemoveOps(d, start, end, gone)>>

\* the begin marker inserted first, the end marker at `end` all the same
InsertTagsOps_BeginFirst(id, tags, start, end) ==
    <<createInsertSegmentOp(start, <<BeginMarker(id, tags)>>),
      createInsertSegmentOp(end, <<EndMarker(id)>>)>>

\* `end` left at its default, `start`
InsertTagsOps_EndAtStart(id, tags, start, end) ==
    <<createInsertSegmentOp(start, <<EndMarker(id)>>),
      createInsertSegmentOp(start, <<BeginMarker(id, tags)>>)>>

\* the ops insertTags(tags, start, end) builds: the end marker first
InsertTagsOps(id, tags, start, end) ==
    <<createInsertSegmentOp(end, <<EndMarker(id)>>),
      createInsertSegmentOp(start, <<BeginMarker(id, tags)>>)>>

\* the groups insertTags submits: one groupOperation holding both ops
InsertTagsGroups(id, tags, start, end) == <<InsertTagsOps(id, tags, start, end)>>

UsedIds(d) == {d[q].mid.n : q \in 1..Len(d)}

\* ids of the markers of [start, end) whose opposite marker is no longer in the
\* sequence: remove asks the store for the position of each
LoneIds(d, start, end) ==
    {d[q].mid.n : q \in {x \in (start + 1)..end :
        /\ d[x].kind \in {KindBeginTags, KindEndTags}
        /\ ~HasOpposite(d, d[x].mid, IF d[x].kind = KindBeginTags THEN "end" ELSE "begin")}}

NoCall == [op |-> "none", a |-> 0, b |-> 0, id |-> 0, tags |-> <<>>, pre |-> <<>>, n |-> 0,
           groups |-> <<>>, seen |-> <<>>, res |-> <<>>, err |-> "none", calls |-> <<>>]

\* a call that edits the sequence by submitting `groups` to the store
Submit(call, groups) ==
    LET s == ApplyGroups([doc |-> doc, refs |-> refs], registry, groups)
    IN  /\ doc' = s.doc
        /\ refs' = s.refs
        /\ last' = [call EXCEPT !.n = Len(doc), !.groups = groups,
                                !.seen = Observed([doc |-> doc, refs |-> refs], registry, groups)]
        /\ outbox' = IF attached THEN outbox \o Messages(groups, s.doc) ELSE outbox
        /\ registry' = StillRegistered(s.refs, registry)
        /\ UNCHANGED <<caret, dom, attached, channel, replica, rexp>>

CanSubmit == attached => Len(outbox) < MaxOutbox

\* insertText(position, text): sharedString.insertText
insertText(position, text) ==
    /\ CanSubmit
    /\ Len(doc) + Len(text) <= MaxLen
    /\ Submit([NoCall EXCEPT !.op = "insertText", !.a = position],
              <<<<createInsertSegmentOp(position, TextSegment(text))>>>>)

\* remove(start, end)
remove(start, end) ==
    /\ CanSubmit
    /\ \E gone \in [LoneIds(doc, start, end) -> 0..Len(doc)] :
         Submit([NoCall EXCEPT !.op = "remove", !.a = start, !.b = end, !.pre = doc,
                               !.res = <<refs>>],
                RemoveGroups(doc, start, end, gone))

\* insertTags(tags, start, end)
insertTags(tags, start, end) ==
    /\ CanSubmit
    /\ Len(doc) + 2 <= MaxLen
    /\ \E id \in Ids \ UsedIds(doc) :
         Submit([NoCall EXCEPT !.op = "insertTags", !.a = start, !.b = end,
                               !.id = id, !.tags = tags, !.pre = doc],
                InsertTagsGroups(id, tags, start, end))

\* getSegmentAndOffset(position), called with any position
getSegmentAndOffsetCall(position) ==
    LET r == getSegmentAndOffset(doc, position)
    IN  /\ last' = [NoCall EXCEPT !.op = "getSegmentAndOffset", !.a = position, !.pre = doc, !.n = Len(doc),
                                  !.res = <<r.segment, r.offset>>, !.err = r.err]
        /\ UNCHANGED <<caret, dom, doc, refs, registry, attached, channel, outbox, replica, rexp>>

\* the tag ranges open at `position`: the begin markers before it, in position
\* order, whose end marker is not before it (mergeTree.getStackContext)
RECURSIVE getStackContext(_, _)
getStackContext(d, position) ==
    IF position <= 0 THEN <<>>
    ELSE LET u == d[position]
             below == getStackContext(d, position - 1)
         IN  IF u.kind = KindBeginTags THEN Append(below, u)
             ELSE IF u.kind = KindEndTags
             THEN SelectSeq(below, LAMBDA m : m.mid.n # u.mid.n)
             ELSE below

emptyArray == <<>>

\* getTags(position)
getTags(d, position) ==
    LET tags == getStackContext(d, position)
    IN  IF tags # <<>> THEN tags ELSE emptyArray

\* `<${tag}>`, `</${tag}>` and the tile tokens, as sequences of characters
OpenToken(tag) == <<"<", tag, ">">>
CloseToken(tag) == <<"<", "/", tag, ">">>
KindToken(kind) ==
    IF kind = KindParagraph THEN <<"<", "p", ">">>
    ELSE IF kind = KindLineBreak THEN <<"<", "b", "r", ">">>
    ELSE <<"<", "?", ">">>

RECURSIVE OpenTokens(_)
OpenTokens(tags) ==
    IF tags = <<>> THEN <<>> ELSE OpenToken(Head(tags)) \o OpenTokens(Tail(tags))

RECURSIVE CloseTokens(_)
CloseTokens(tags) ==
    IF tags = <<>> THEN <<>> ELSE CloseToken(Head(tags)) \o CloseTokens(Tail(tags))

\* tags.slice().reverse()
Reverse(t) == [i \in 1..Len(t) |-> t[Len(t) + 1 - i]]

\* the tags closed in declared order
EndTagTokens_Declared(tags) == CloseTokens(tags)

\* the closing tokens toString emits for the tags of the matching begin marker
EndTagTokens(tags) == CloseTokens(Reverse(tags))

\* getStart(marker).properties.tags; reading the properties of a marker that
\* idToSegment no longer holds raises a TypeError
StartTagsKnown(d, mid) == HasOpposite(d, mid, "begin")
StartTags(d, mid) ==
    d[(CHOOSE q \in MarkerPositions(d, OppositeId(mid, "begin")) : TRUE) + 1].tags

\* what the callback of toString pushes for the unit at position p
Pushed(d, p) ==
    LET u == d[p + 1]
    IN  IF u.kind = KindText THEN <<u.ch>>
        ELSE IF u.kind = KindBeginTags THEN OpenTokens(u.tags)
        ELSE IF u.kind = KindEndTags THEN EndTagTokens(StartTags(d, u.mid))
        ELSE KindToken(u.kind)

RECURSIVE Joined(_, _)
Joined(d, p) == IF p >= Len(d) THEN <<>> ELSE Pushed(d, p) \o Joined(d, p + 1)

\* toString()
toString(d) ==
    IF \E q \in 0..(Len(d) - 1) : d[q + 1].kind = KindEndTags /\ ~StartTagsKnown(d, d[q + 1].mid)
    THEN [err |-> "TypeError", out |-> <<>>]
    ELSE [err |-> "none", out |-> Joined(d, 0)]

toStringCall ==
    LET r == toString(doc)
    IN  /\ last' = [NoCall EXCEPT !.op = "toString", !.n = Len(doc), !.res = r.out, !.err = r.err]
        /\ UNCHANGED <<caret, dom, doc, refs, registry, attached, channel, outbox, replica, rexp>>

-----------------------------------------------------------------------------
(* CSS classes and paragraph formats *)

\* the class names given to the CSS operations
ClassNames == {"x", "y"}

\* the class lists a segment can have
ClassLists == SUBSET ClassNames

\* TokenList.set(classList, tokens): the list with the tokens it lacks added
TokenListSet(classList, tokens) == classList \cup tokens

\* TokenList.unset(classList, token): the list without the token
TokenListUnset(classList, token) == classList \ {token}

\* TokenList.computeToggle(classList, toAdd, toRemove), never moving a class
computeToggle_AddOnly(classList, t) == t

\* TokenList.computeToggle(classList, toAdd, toRemove): every class of toAdd that
\* the list holds leaves toAdd and joins toRemove
computeToggle(classList, t) ==
    [toAdd |-> t.toAdd \ classList, toRemove |-> t.toRemove \cup (t.toAdd \cap classList)]

\* the position after the last unit of a segment
SegmentEnd(d, seg) ==
    IF seg = SegOrdinal(d, Len(d) - 1) THEN Len(d) ELSE mergeTreeGetPosition(d, seg + 1)

\* visitRange(callback, start, end): the leaves of [start, end) in position
\* order, each as the SegmentSpan the callback builds and the class list of
\* the segment
visitRange(d, start, end) ==
    IF ~(start < end) \/ start >= Len(d) THEN <<>>
    ELSE LET lo == SegOrdinal(d, start)
             hi == SegOrdinal(d, (IF end < Len(d) THEN end ELSE Len(d)) - 1)
         IN  [i \in 1..(hi - lo + 1) |->
                LET segStart == mergeTreeGetPosition(d, lo + i - 1)
                    segEnd == SegmentEnd(d, lo + i - 1)
                IN  [startPosition |-> IF segStart < start THEN start ELSE segStart,
                     endPosition |-> IF end < segEnd THEN end ELSE segEnd,
                     classList |-> d[segStart + 1].css]]

\* every visited leaf taken for changed
ListChanged_Always(newList, oldList) == TRUE

\* if (newList !== oldList)
ListChanged(newList, oldList) == newList # oldList

\* updateCssClassList(start, end, callback): the annotations it makes, one for
\* each visited leaf whose new list is not its old list; the callback is given
\* as the function from the old list to the new one
updateCssClassList(d, start, end, callback) ==
    LET spans == visitRange(d, start, end)
        updates == SelectSeq(spans, LAMBDA sp : ListChanged(callback[sp.classList], sp.classList))
    IN  [i \in 1..Len(updates) |->
           createAnnotateRangeOp(updates[i].startPosition, updates[i].endPosition,
               {[key |-> "classList", value |-> callback[updates[i].classList]]})]

\* each annotate call is an annotateRange of its own
PerOp(ops) == [i \in 1..Len(ops) |-> <<ops[i]>>]

\* addCssClass(start, end, ...classNames)
AddCssClassOps(d, start, end, classNames) ==
    IF classNames # {}
    THEN updateCssClassList(d, start, end,
             [classList \in ClassLists |-> TokenListSet(classList, classNames)])
    ELSE <<>>

\* classNames.reduce((updatedList, className) => TokenList.unset(updatedList, className), classList)
RECURSIVE UnsetAll(_, _)
UnsetAll(classList, classNames) ==
    IF classNames = {} THEN classList
    ELSE LET className == CHOOSE c \in classNames : TRUE
         IN  UnsetAll(TokenListUnset(classList, className), classNames \ {className})

\* removeCssClass(start, end, ...classNames)
RemoveCssClassOps(d, start, end, classNames) ==
    updateCssClassList(d, start, end,
        [classList \in ClassLists |-> UnsetAll(classList, classNames)])

\* the pre-visit of toggleCssClass: computeToggle on the list of every leaf
RECURSIVE PreVisit(_, _)
PreVisit(spans, t) ==
    IF spans = <<>> THEN t
    ELSE PreVisit(Tail(spans), computeToggle(Head(spans).classList, t))

\* toggleCssClass(start, end, ...classNames): the pre-visit changes no list; then
\* removeCssClass(start, end, ...toRemove) and addCssClass(start, end, ...toAdd)
ToggleCssClassOps(d, rs, reg, start, end, classNames) ==
    LET t == PreVisit(visitRange(d, start, end), [toAdd |-> classNames, toRemove |-> {}])
        removals == updateCssClassList(d, start, end, [classList \in ClassLists |-> classList])
                    \o RemoveCssClassOps(d, start, end, t.toRemove)
        d1 == ApplyGroups([doc |-> d, refs |-> rs], reg, PerOp(removals)).doc
    IN  removals \o AddCssClassOps(d1, start, end, t.toAdd)

addCssClass(start, end, classNames) ==
    /\ CanSubmit
    /\ Submit([NoCall EXCEPT !.op = "addCssClass", !.a = start, !.b = end,
                             !.tags = classNames, !.pre = doc],
              PerOp(AddCssClassOps(doc, start, end, classNames)))

removeCssClass(start, end, classNames) ==
    /\ CanSubmit
    /\ Submit([NoCall EXCEPT !.op = "removeCssClass", !.a = start, !.b = end,
                             !.tags = classNames, !.pre = doc],
              PerOp(RemoveCssClassOps(doc, start, end, classNames)))

toggleCssClass(start, end, classNames) ==
    /\ CanSubmit
    /\ Submit([NoCall EXCEPT !.op = "toggleCssClass", !.a = start, !.b = end,
                             !.tags = classNames, !.pre = doc],
              PerOp(ToggleCssClassOps(doc, refs, registry, start, end, classNames)))

-----------------------------------------------------------------------------
(* Local references *)

FreeHandles == {h \in DOMAIN refs : refs[h] = NoRef}

\* the test `position > length` in place of `position >= length`
NewLocalRef_Strict(d, position) ==
    IF position > getLength(d)
    THEN [segment |-> endOfTextSegment, offset |-> 0, register |-> FALSE]
    ELSE [segment |-> getSegmentAndOffset(d, position).segment,
          offset |-> getSegmentAndOffset(d, position).offset,
          register |-> TRUE]

\* addLocalRef(position): the reference made, and whether it is registered
\* with the merge tree (mergeTree.addLocalReference)
NewLocalRef(d, position) ==
    IF position >= getLength(d)
    THEN [segment |-> endOfTextSegment, offset |-> 0, register |-> FALSE]
    ELSE [segment |-> getSegmentAndOffset(d, position).segment,
          offset |-> getSegmentAndOffset(d, position).offset,
          register |-> TRUE]

addLocalRef(position) ==
    /\ FreeHandles # {}
    /\ LET h == CHOOSE x \in FreeHandles : \A y \in FreeHandles : x <= y
           n == NewLocalRef(doc, position)
       IN  /\ refs' = [refs EXCEPT ![h] = [segment |-> n.segment, offset |-> n.offset,
                                           eot |-> position >= Len(doc)]]
           /\ registry' = IF n.register THEN registry \cup {h} ELSE registry
           /\ last' = [NoCall EXCEPT !.op = "addLocalRef", !.a = position, !.b = h, !.n = Len(doc),
                          !.calls = IF n.register THEN <<"addLocalReference">> ELSE <<>>]
    /\ UNCHANGED <<caret, dom, doc, attached, channel, outbox, replica, rexp>>

\* removeLocalRef(localRef): whether mergeTree.removeLocalReference is called
Deregisters(r) == r.segment # endOfTextSegment

removeLocalRef(h) ==
    /\ refs[h] # NoRef
    /\ refs' = [refs EXCEPT ![h] = NoRef]
    /\ registry' = IF Deregisters(refs[h]) THEN registry \ {h} ELSE registry
    /\ last' = [NoCall EXCEPT !.op = "removeLocalRef", !.a = h, !.n = Len(doc), !.res = <<refs[h]>>,
                   !.calls = IF Deregisters(refs[h]) THEN <<"removeLocalReference">> ELSE <<>>]
    /\ UNCHANGED <<caret, dom, doc, attached, channel, outbox, replica, rexp>>

\* the offset of the reference within its segment left out
localRefToPosition_SegmentStart(d, r) ==
    IF r.segment = 0 THEN getLength(d) ELSE mergeTreeGetPosition(d, r.segment)

\* no special case for the end of the document: LocalReference.toPosition of a
\* reference without a segment is the detached position
localRefToPosition_NoSentinel(d, r) ==
    IF r.segment = 0 THEN 0 - 1 ELSE toPosition(d, r)

\* localRefToPosition(localRef)
localRefToPosition(d, r) ==
    IF r.segment = endOfTextSegment THEN getLength(d) ELSE toPosition(d, r)

-----------------------------------------------------------------------------
(* Edits of remote clients, merged by the store, and the remote replica *)

remoteInsert(position, text) ==
    /\ Len(doc) + Len(text) <= MaxLen
    /\ LET s == ApplyGroup([doc |-> doc, refs |-> refs], registry,
                           <<createInsertSegmentOp(position, TextSegment(text))>>)
       IN  /\ doc' = s.doc
           /\ refs' = s.refs
           /\ registry' = StillRegistered(s.refs, registry)
           /\ last' = [NoCall EXCEPT !.op = "remoteInsert", !.a = position, !.n = Len(doc)]
    /\ UNCHANGED <<caret, dom, attached, channel, outbox, replica, rexp>>

remoteRemove(start, end) ==
    /\ start < end
    /\ LET s == ApplyGroup([doc |-> doc, refs |-> refs], registry,
                           <<createRemoveRangeOp(start, end)>>)
       IN  /\ doc' = s.doc
           /\ refs' = s.refs
           /\ registry' = StillRegistered(s.refs, registry)
           /\ last' = [NoCall EXCEPT !.op = "remoteRemove", !.a = start, !.b = end, !.n = Len(doc)]
    /\ UNCHANGED <<caret, dom, attached, channel, outbox, replica, rexp>>

\* the replica processes the next group message, as one step
replicaProcess ==
    /\ outbox # <<>>
    /\ replica' = ApplyGroup([doc |-> replica, refs |-> <<>>], {}, Head(outbox).ops).doc
    /\ rexp' = Head(outbox).after
    /\ outbox' = Tail(outbox)
    /\ UNCHANGED <<caret, dom, doc, refs, registry, last, attached, channel>>

-----------------------------------------------------------------------------
(* Caret: the selection kept as two local references, and the browser it talks to *)

\* a node of no segment: one outside the layout's root, or no node at all
Outside == 0 - 1

NoSelection == [anchorNode |-> Outside, anchorOffset |-> 0, focusNode |-> Outside, focusOffset |-> 0]

\* the channels the constructor adds listeners to
Channels == {"selectionchange", "focus", "leave"}

\* no Caret constructed
NoCaret == [startRef |-> 0, endRef |-> 0]
NoDom == [sel |-> NoSelection, listeners |-> {}, raf |-> <<>>, focus |-> FALSE, alive |-> FALSE]

\* the references a Caret can be handed: two more than it holds, so that a
\* reference it failed to release shows
CaretHandles == Handles \cup {3, 4}

\* the directions of a CaretEventType.leave event
Directions == {"up", "down", "left", "right", "none"}

\* getDocSegmentKind(segment)
getDocSegmentKind(d, segment) ==
    IF segment = endOfTextSegment
    THEN KindEndOfText
    ELSE d[mergeTreeGetPosition(d, segment) + 1].kind

\* new Marker(Tile), properties { ...inclusionProperties, ... }
InclusionMarker ==
    [kind |-> KindInclusion, ch |-> "", mid |-> NoId, tags |-> <<>>, first |-> TRUE,
     css |-> NoClasses]

\* insertComponent(position, ...): sharedString.insertMarker
insertComponent(position) ==
    /\ CanSubmit
    /\ Len(doc) + 1 <= MaxLen
    /\ Submit([NoCall EXCEPT !.op = "insertComponent", !.a = position],
              <<<<createInsertSegmentOp(position, <<InclusionMarker>>)>>>>)

\* the formatting tags given to paragraphs
ParagraphTags == {"p", "h1"}

\* new Marker(Tile), properties { ...paragraphProperties, tag }
ParagraphMarker(tag) ==
    [kind |-> KindParagraph, ch |-> "", mid |-> NoId, tags |-> <<tag>>, first |-> TRUE,
     css |-> NoClasses]

\* insertParagraph(position, tag): sharedString.insertMarker
InsertParagraphGroups(position, tag) ==
    <<<<createInsertSegmentOp(position, <<ParagraphMarker(tag)>>)>>>>

insertParagraph(position, tag) ==
    /\ CanSubmit
    /\ Len(doc) + 1 <= MaxLen
    /\ Submit([NoCall EXCEPT !.op = "insertParagraph", !.a = position, !.tags = <<tag>>,
                             !.pre = doc],
              InsertParagraphGroups(position, tag))

\* mergeTree.findTile(position, clientId, tileType, preceding): the nearest
\* paragraph tile at or before the position (preceding), at or after it (not
\* preceding); found is FALSE when there is none
findTile(d, position, preceding) ==
    LET tiles == {q \in 0..(Len(d) - 1) :
                     /\ d[q + 1].kind = KindParagraph
                     /\ IF preceding THEN q <= position ELSE q >= position}
    IN  IF tiles = {} THEN [found |-> FALSE, pos |-> 0]
        ELSE [found |-> TRUE,
              pos |-> CHOOSE q \in tiles :
                         \A x \in tiles : IF preceding THEN x <= q ELSE x >= q]

\* findParagraph(position)
findParagraph(d, position) ==
    LET maybeStart == findTile(d, position, TRUE)
        maybeEnd == findTile(d, position, FALSE)
    IN  [start |-> IF maybeStart.found THEN maybeStart.pos ELSE 0,
         end |-> IF maybeEnd.found THEN maybeEnd.pos + 1 ELSE getLength(d)]

\* setFormat inserting a new paragraph marker whatever is at the start
SetFormatGroups_Insert(d, position, tag) ==
    InsertParagraphGroups(findParagraph(d, position).start, tag)

\* setFormat(position, tag): the paragraph marker at the start of the paragraph
\* is given the tag and annotated, or a new paragraph marker is inserted there
SetFormatGroups(d, position, tag) ==
    LET start == findParagraph(d, position).start
    IN  IF /\ start < getLength(d)
           /\ getDocSegmentKind(d, getSegmentAndOffset(d, start).segment) = KindParagraph
        THEN <<<<createAnnotateRangeOp(start, start + 1, {[key |-> "tag", value |-> tag]})>>>>
        ELSE InsertParagraphGroups(start, tag)

setFormat(position, tag) ==
    /\ CanSubmit
    /\ Len(doc) + 1 <= MaxLen
    /\ Submit([NoCall EXCEPT !.op = "setFormat", !.a = position, !.tags = <<tag>>, !.pre = doc,
                             !.b = findParagraph(doc, position).start],
              SetFormatGroups(doc, position, tag))

\* clamp(min, value, max)
clamp(min, value, max) ==
    IF value < min THEN min ELSE IF value > max THEN max ELSE value

\* get position(): the clamped position of endRef
caretPosition(d, rs, c) == clamp(0, localRefToPosition(d, rs[c.endRef]), getLength(d))

\* get anchor(): the clamped position of startRef
caretAnchor(d, rs, c) == clamp(0, localRefToPosition(d, rs[c.startRef]), getLength(d))

\* anchor and position reported in the order they were set
selection_Unordered(d, rs, c) ==
    [start |-> caretAnchor(d, rs, c), end |-> caretPosition(d, rs, c)]

\* get selection()
selection(d, rs, c) ==
    LET start == caretAnchor(d, rs, c)
        end == caretPosition(d, rs, c)
    IN  IF start < end
        THEN [start |-> start, end |-> end]
        ELSE [start |-> end, end |-> start]

\* the state updateRef works on: the reference objects and the merge tree's registry
RefState(rs, reg) == [refs |-> rs, registry |-> reg, ref |-> 0]

\* the lowest handle not in use
NewHandle(rs) ==
    CHOOSE x \in DOMAIN rs : rs[x] = NoRef /\ \A y \in DOMAIN rs : rs[y] = NoRef => x <= y

\* a new reference made without releasing the old one
updateRef_NoRelease(d, st, h, position) ==
    LET n == NewLocalRef(d, position)
        h2 == NewHandle(st.refs)
    IN  [refs |-> [st.refs EXCEPT ![h2] = [segment |-> n.segment, offset |-> n.offset,
                                           eot |-> position >= Len(d)]],
         registry |-> IF n.register THEN st.registry \cup {h2} ELSE st.registry,
         ref |-> h2]

\* updateRef(doc, ref, position): doc.removeLocalRef(ref), then doc.addLocalRef(position)
updateRef(d, st, h, position) ==
    LET released == [st.refs EXCEPT ![h] = NoRef]
        reg == IF Deregisters(st.refs[h]) THEN st.registry \ {h} ELSE st.registry
        n == NewLocalRef(d, position)
        h2 == NewHandle(released)
    IN  [refs |-> [released EXCEPT ![h2] = [segment |-> n.segment, offset |-> n.offset,
                                            eot |-> position >= Len(d)]],
         registry |-> IF n.register THEN reg \cup {h2} ELSE reg,
         ref |-> h2]

\* setSelection(start, end): the references, the registry and the Caret's fields after it
SetSelection(d, rs, reg, c, start, end) ==
    LET s1 == updateRef(d, RefState(rs, reg), c.startRef, start)
        s2 == updateRef(d, RefState(s1.refs, s1.registry), c.endRef, end)
    IN  [refs |-> s2.refs, registry |-> s2.registry,
         caret |-> [startRef |-> s1.ref, endRef |-> s2.ref]]

\* setSelection(start, end), called by the editor
setSelection(start, end) ==
    /\ dom.alive
    /\ LET r == SetSelection(doc, refs, registry, caret, start, end)
       IN  /\ refs' = r.refs
           /\ registry' = r.registry
           /\ caret' = r.caret
    /\ last' = [NoCall EXCEPT !.op = "setSelection", !.a = start, !.b = end, !.n = Len(doc),
                              !.calls = <<"updateRef", "updateRef">>]
    /\ UNCHANGED <<doc, attached, channel, outbox, replica, rexp, dom>>

\* collapseForward()
collapseForward ==
    /\ dom.alive
    /\ LET end == selection(doc, refs, caret).end
           r == SetSelection(doc, refs, registry, caret, end, end)
       IN  /\ refs' = r.refs
           /\ registry' = r.registry
           /\ caret' = r.caret
           /\ last' = [NoCall EXCEPT !.op = "collapseForward", !.a = end, !.b = end,
                                     !.n = Len(doc), !.calls = <<"setSelection">>]
    /\ UNCHANGED <<doc, attached, channel, outbox, replica, rexp, dom>>

\* layout.segmentAndOffsetToNodeAndOffset(segment, offset): the node of a
\* segment is named by the segment
segmentAndOffsetToNodeAndOffset(segment, offset) == [node |-> segment, nodeOffset |-> offset]

\* layout.nodeToSegment(node)
nodeToSegment(node) == node

\* root.contains(node)
rootContains(node) == node # Outside

\* positionToNodeOffset mapping every position directly
positionToNodeOffset_Direct(d, ref) ==
    LET right == getSegmentAndOffset(d, localRefToPosition(d, ref))
    IN  segmentAndOffsetToNodeAndOffset(right.segment, right.offset)

\* positionToNodeOffset(ref)
positionToNodeOffset(d, ref) ==
    LET position == localRefToPosition(d, ref)
        right == getSegmentAndOffset(d, position)
        rightKind == getDocSegmentKind(d, ref.segment)
    IN  IF position = 0 \/ rightKind = KindText
        THEN segmentAndOffsetToNodeAndOffset(right.segment, right.offset)
        ELSE LET left == getSegmentAndOffset(d, position - 1)
                 delta == IF getDocSegmentKind(d, left.segment) = KindText THEN 1 ELSE 0
             IN  segmentAndOffsetToNodeAndOffset(left.segment, left.offset + delta)

\* nodeOffsetToPosition never nudging the position forward
nodeOffsetToPosition_NoNudge(d, node, nodeOffset, br) ==
    getPosition(d, nodeToSegment(node)) + nodeOffset

\* nodeOffsetToPosition(node, nodeOffset); br: the node is a <br> element
nodeOffsetToPosition(d, node, nodeOffset, br) ==
    LET segment == nodeToSegment(node)
        kind == getDocSegmentKind(d, segment)
        position == getPosition(d, segment) + nodeOffset
    IN  IF kind = KindText \/ kind = KindEndOfText \/ br
        THEN position
        ELSE position + 1

\* the selection sync computes from startRef and endRef
SyncTarget(d, rs, c) ==
    LET start == positionToNodeOffset(d, rs[c.startRef])
        end == positionToNodeOffset(d, rs[c.endRef])
    IN  [anchorNode |-> start.node, anchorOffset |-> start.nodeOffset,
         focusNode |-> end.node, focusOffset |-> end.nodeOffset]

\* the selection set whatever the window selection is
SelectionDiffers_Always(target, sel) == TRUE

\* the test of sync: the computed selection is not the window selection
SelectionDiffers(target, sel) ==
    \/ target.focusOffset # sel.focusOffset
    \/ target.focusNode # sel.focusNode
    \/ target.anchorOffset # sel.anchorOffset
    \/ target.anchorNode # sel.anchorNode

\* startRef alone mapped, and its node and offset taken for endRef too
Sync_MapsStartOnly(d, rs, c, sel) ==
    LET start == positionToNodeOffset(d, rs[c.startRef])
        target == [anchorNode |-> start.node, anchorOffset |-> start.nodeOffset,
                   focusNode |-> start.node, focusOffset |-> start.nodeOffset]
    IN  IF SelectionDiffers(target, sel)
        THEN [sel |-> target, calls |-> <<"positionToNodeOffset", "setBaseAndExtent">>]
        ELSE [sel |-> sel, calls |-> <<"positionToNodeOffset">>]

\* sync(): the window selection after it, and the calls it makes
Sync(d, rs, c, sel) ==
    LET target == SyncTarget(d, rs, c)
    IN  IF SelectionDiffers(target, sel)
        THEN [sel |-> target,
              calls |-> <<"positionToNodeOffset", "positionToNodeOffset", "setBaseAndExtent">>]
        ELSE [sel |-> sel,
              calls |-> <<"positionToNodeOffset", "positionToNodeOffset">>]

\* sync(), called by the editor; `a` tells whether the window selection was
\* the computed one, `b` counts the calls in a row, up to two
sync ==
    /\ dom.alive
    /\ LET r == Sync(doc, refs, caret, dom.sel)
       IN  /\ dom' = [dom EXCEPT !.sel = r.sel]
           /\ last' = [NoCall EXCEPT !.op = "sync", !.n = Len(doc),
                                     !.b = IF last.op = "sync" THEN 2 ELSE 1,
                                     !.a = IF dom.sel = SyncTarget(doc, refs, caret) THEN 0 ELSE 1,
                                     !.calls = r.calls]
    /\ UNCHANGED <<doc, refs, registry, attached, channel, outbox, replica, rexp, caret>>

\* the "focus" listener of root: () => { this.sync(); }
focusEvent ==
    /\ ~dom.focus
    /\ LET heard == "focus" \in dom.listeners
           r == Sync(doc, refs, caret, dom.sel)
       IN  /\ dom' = [dom EXCEPT !.focus = TRUE, !.sel = IF heard THEN r.sel ELSE dom.sel]
           /\ last' = [NoCall EXCEPT !.op = "focus", !.n = Len(doc),
                                     !.calls = IF heard THEN <<"sync">> ELSE <<>>]
    /\ UNCHANGED <<doc, refs, registry, attached, channel, outbox, replica, rexp, caret>>

\* the window selections the browser can report: nodes of segments of the
\* document, of the end of the document, or outside of root
Nodes(d) == {Outside} \cup 0..Cardinality({q \in 1..Len(d) : d[q].first})

\* what layout.nodeToSegment does with a node outside of root: it fails, or
\* it answers undefined, which is endOfTextSegment
Unknowns == {"throws", "undefined"}

\* if (!this.layout.root.contains(focusNode)) { return; }
SelectionInside(sel) == rootContains(sel.focusNode)

\* onSelectionChange: the "selectionchange" listener of document, run when the
\* window selection is `sel`; `res` keeps the <br> flags of its two nodes
onSelectionChange(sel, anchorBr, focusBr, unknown) ==
    /\ dom' = [dom EXCEPT !.sel = sel]
    /\ LET heard == "selectionchange" \in dom.listeners /\ SelectionInside(sel)
           fails == heard /\ ~rootContains(sel.anchorNode) /\ unknown = "throws"
           sets == heard /\ ~fails
           anchorNode == IF rootContains(sel.anchorNode) THEN sel.anchorNode ELSE endOfTextSegment
           start == nodeOffsetToPosition(doc, anchorNode, sel.anchorOffset, anchorBr)
           end == nodeOffsetToPosition(doc, sel.focusNode, sel.focusOffset, focusBr)
           r == SetSelection(doc, refs, registry, caret, start, end)
       IN  /\ refs' = IF sets THEN r.refs ELSE refs
           /\ registry' = IF sets THEN r.registry ELSE registry
           /\ caret' = IF sets THEN r.caret ELSE caret
           /\ last' = [NoCall EXCEPT !.op = "selectionchange", !.n = Len(doc),
                          !.a = IF sets THEN start ELSE 0, !.b = IF sets THEN end ELSE 0,
                          !.res = <<anchorBr, focusBr>>,
                          !.id = IF last.op = "sync" /\ sel = dom.sel THEN 1 ELSE 0,
                          !.pre = <<caretAnchor(doc, refs, caret), caretPosition(doc, refs, caret)>>,
                          !.err = IF fails THEN "Error" ELSE "none",
                          !.calls = IF sets THEN <<"setSelection">> ELSE <<>>]
    /\ UNCHANGED <<doc, attached, channel, outbox, replica, rexp>>

\* position++ for the directions right and down alone
LeaveDelta_ForwardOnly(direction) == IF direction \in {"right", "down"} THEN 1 ELSE 0

\* switch (detail.direction) { case up: case left: break; default: position++ }
LeaveDelta(direction) == IF direction \in {"up", "left"} THEN 0 ELSE 1

\* the callback handed to requestAnimationFrame:
\* root.focus(); this.setSelection(position, position); this.sync()
\* (root.focus() dispatches "focus" to the listener of root when root gains focus)
Frame(d, rs, reg, c, dm, position) ==
    LET heard == ~dm.focus /\ "focus" \in dm.listeners
        sel1 == IF heard THEN Sync(d, rs, c, dm.sel).sel ELSE dm.sel
        r == SetSelection(d, rs, reg, c, position, position)
    IN  [refs |-> r.refs, registry |-> r.registry, caret |-> r.caret,
         sel |-> Sync(d, r.refs, r.caret, sel1).sel,
         calls |-> <<"focus", "setSelection", "sync">>]

\* the selection set while the event is dispatched, with no animation frame
leaveEvent_Immediate(segment, direction) ==
    /\ Len(dom.raf) < MaxFrames
    /\ getDocSegmentKind(doc, segment) = KindInclusion
    /\ LET position == getPosition(doc, nodeToSegment(segment)) + LeaveDelta(direction)
           r == Frame(doc, refs, registry, caret, dom, position)
       IN  /\ refs' = r.refs
           /\ registry' = r.registry
           /\ caret' = r.caret
           /\ dom' = [dom EXCEPT !.focus = TRUE, !.sel = r.sel]
           /\ last' = [NoCall EXCEPT !.op = "leave", !.n = Len(doc),
                          !.a = getPosition(doc, segment), !.b = position,
                          !.tags = <<direction>>,
                          !.calls = <<"preventDefault", "stopPropagation">> \o r.calls]
    /\ UNCHANGED <<doc, attached, channel, outbox, replica, rexp>>

\* the CaretEventType.leave listener of root, for an event from inside the
\* element of the inclusion `segment`: the selection is set in an animation frame;
\* the callback closes over `position`, a number (`delta` tells what was added
\* to the position of the inclusion)
leaveEvent(segment, direction) ==
    /\ Len(dom.raf) < MaxFrames
    /\ getDocSegmentKind(doc, segment) = KindInclusion
    /\ LET heard == "leave" \in dom.listeners
           position == getPosition(doc, nodeToSegment(segment)) + LeaveDelta(direction)
       IN  /\ dom' = [dom EXCEPT !.focus = FALSE,
                                 !.raf = IF heard
                                         THEN Append(dom.raf, [position |-> position, torn |-> FALSE,
                                                               delta |-> LeaveDelta(direction)])
                                         ELSE dom.raf]
           /\ last' = [NoCall EXCEPT !.op = "leave", !.n = Len(doc),
                          !.a = getPosition(doc, segment), !.b = position,
                          !.tags = <<direction>>,
                          !.calls = IF heard
                                    THEN <<"preventDefault", "stopPropagation", "requestAnimationFrame">>
                                    ELSE <<>>]
    /\ UNCHANGED <<doc, refs, registry, attached, channel, outbox, replica, rexp, caret>>

\* the browser runs the first animation frame callback requested
animationFrame ==
    /\ dom.raf # <<>>
    /\ LET r == Frame(doc, refs, registry, caret, dom, Head(dom.raf).position)
       IN  /\ refs' = r.refs
           /\ registry' = r.registry
           /\ caret' = r.caret
           /\ dom' = [dom EXCEPT !.raf = Tail(dom.raf), !.sel = r.sel,
                                 !.focus = TRUE]
           /\ last' = [NoCall EXCEPT !.op = "frame", !.n = Len(doc),
                          !.a = Head(dom.raf).position,
                          !.b = Head(dom.raf).delta,
                          !.res = <<Head(dom.raf).torn>>,
                          !.calls = r.calls]
    /\ UNCHANGED <<doc, attached, channel, outbox, replica, rexp>>

\* the layout is torn down; the Caret has no code for it: its listeners stay
\* added and its animation frames stay requested (`torn` marks them)
teardown ==
    /\ dom.alive
    /\ dom' = [dom EXCEPT !.alive = FALSE,
                          !.raf = [i \in 1..Len(dom.raf) |-> [dom.raf[i] EXCEPT !.torn = TRUE]]]
    /\ last' = [NoCall EXCEPT !.op = "teardown", !.n = Len(doc)]
    /\ UNCHANGED <<doc, refs, registry, attached, channel, outbox, replica, rexp, caret>>

-----------------------------------------------------------------------------
(* Tag ranges *)

BeginPositions(d) == {q \in 0..(Len(d) - 1) : d[q + 1].kind = KindBeginTags}
EndPositions(d) == {q \in 0..(Len(d) - 1) : d[q + 1].kind = KindEndTags}

\* positions of the markers of kind k that carry the generated id n
MatchesOf(d, k, n) == {q \in 0..(Len(d) - 1) : d[q + 1].kind = k /\ d[q + 1].mid.n = n}

TagsMatched(d) ==
    /\ \A q \in BeginPositions(d) :
          /\ Cardinality(MatchesOf(d, KindEndTags, d[q + 1].mid.n)) = 1
          /\ \A e \in MatchesOf(d, KindEndTags, d[q + 1].mid.n) : q < e
    /\ \A q \in EndPositions(d) :
          Cardinality(MatchesOf(d, KindBeginTags, d[q + 1].mid.n)) = 1

\* C1: in every state reached by insertTags (s <= e) and remove calls, every
\* begin marker has exactly one end marker with its id, at a later position,
\* and every end marker has exactly one begin marker.
C1_TagPairsMatched == TagsMatched(doc)

\* the begin markers of the removed range whose end marker is at or after `end`
BeginsWithEndOutside(d, start, end) ==
    {q \in BeginPositions(d) :
        /\ start <= q /\ q < end
        /\ \E e \in MatchesOf(d, KindEndTags, d[q + 1].mid.n) : e >= end}

\* C2: remove(start, end) over a range holding a begin marker whose end marker
\* is at a position >= end removes both markers of the pair.
C2_RemoveTakesEndTag ==
    last.op = "remove" =>
        \A q \in BeginsWithEndOutside(last.pre, last.a, last.b) :
            /\ MatchesOf(doc, KindBeginTags, last.pre[q + 1].mid.n) = {}
            /\ MatchesOf(doc, KindEndTags, last.pre[q + 1].mid.n) = {}

\* Scenario 2: Begin at 0, "AB" at [1,3), End at 3; remove(0, 2) leaves "B"
C2_Witness ==
    /\ last.op = "remove" /\ last.a = 0 /\ last.b = 2
    /\ Len(last.pre) = 4
    /\ last.pre[1].kind = KindBeginTags /\ last.pre[4].kind = KindEndTags
    /\ last.pre[1].mid.n = last.pre[4].mid.n
    /\ last.pre[2].ch = "A" /\ last.pre[3].ch = "B"
    /\ doc = <<TextUnit("B", TRUE)>>

\* the end markers of the removed range whose begin marker is before `start`
EndsWithBeginOutside(d, start, end) ==
    {q \in EndPositions(d) :
        /\ start <= q /\ q < end
        /\ \E b \in MatchesOf(d, KindBeginTags, d[q + 1].mid.n) : b < start}

\* C3: remove(start, end) over a range holding an end marker whose begin marker
\* is at a position < start keeps that end marker and its begin marker; the
\* removal is split: one op ends at the marker, no op covers the marker.
C3_RemoveKeepsEndTag ==
    last.op = "remove" =>
        \A q \in EndsWithBeginOutside(last.pre, last.a, last.b) :
            /\ Cardinality(MatchesOf(doc, KindEndTags, last.pre[q + 1].mid.n)) = 1
            /\ Cardinality(MatchesOf(doc, KindBeginTags, last.pre[q + 1].mid.n)) = 1
            /\ \E i \in 1..Len(last.groups) : \E j \in 1..Len(last.groups[i]) :
                  /\ last.groups[i][j].type = "remove"
                  /\ last.groups[i][j].pos2 = q
                  /\ last.groups[i][j].pos1 >= last.a
            /\ \A i \in 1..Len(last.groups) : \A j \in 1..Len(last.groups[i]) :
                  ~(last.groups[i][j].pos1 <= q /\ q < last.groups[i][j].pos2)

C3_Witness ==
    /\ last.op = "remove"
    /\ \E q \in EndsWithBeginOutside(last.pre, last.a, last.b) :
          /\ last.a < q /\ q + 1 < last.b
          /\ Len(doc) = 2

\* C4: the ops of one remove or insertTags call go to the store as one group:
\* a change listener sees no sequence other than the one the call ends in, and
\* the remote replica is never in a state that is not the local sequence as of
\* the end of a call.
C4_OneGroupPerCall ==
    /\ last.op \in {"remove", "insertTags"} =>
          /\ Len(last.groups) = 1
          /\ \A i \in 1..Len(last.seen) : last.seen[i] = doc
    /\ replica = rexp

\* a remove of several ops has been processed by the replica
C4_Witness ==
    /\ last.op = "remove"
    /\ Len(last.groups) = 1
    /\ Len(last.groups[1]) >= 2
    /\ BeginsWithEndOutside(last.pre, last.a, last.b) # {}
    /\ outbox = <<>>
    /\ replica = doc

\* C5: insertTags(tags, s, e) with 0 <= s <= e <= length submits one group of two
\* insert ops, the end marker at e first and the begin marker at s second; after
\* it the begin marker is at s, the end marker at e + 1, and both carry one id
\* that no marker of the sequence carried before.
C5_InsertTagsOps ==
    last.op = "insertTags" =>
        /\ Len(last.groups) = 1
        /\ Len(last.groups[1]) = 2
        /\ last.groups[1][1].type = "insert"
        /\ last.groups[1][1].pos1 = last.b
        /\ last.groups[1][1].seg = <<EndMarker(last.id)>>
        /\ last.groups[1][2].type = "insert"
        /\ last.groups[1][2].pos1 = last.a
        /\ last.groups[1][2].seg = <<BeginMarker(last.id, last.tags)>>
        /\ Len(doc) = Len(last.pre) + 2
        /\ doc[last.a + 1] = BeginMarker(last.id, last.tags)
        /\ doc[last.b + 2] = EndMarker(last.id)
        /\ MatchesOf(doc, KindBeginTags, last.id) = {last.a}
        /\ MatchesOf(doc, KindEndTags, last.id) = {last.b + 1}
        /\ last.id \notin UsedIds(last.pre)

\* a range inserted around existing content, after the start of the document
C5_Witness ==
    /\ last.op = "insertTags"
    /\ 0 < last.a /\ last.a < last.b
    /\ doc[last.a + 1].kind = KindBeginTags
    /\ doc[last.b + 2].kind = KindEndTags

\* C6: after insertTags(tags, s, e) with s <= e, getTags(q) for every position q
\* strictly inside the inserted range holds the new begin marker carrying tags.
C6_GetTagsInside ==
    last.op = "insertTags" =>
        \A q \in (last.a + 1)..last.b :
            \E i \in 1..Len(getTags(doc, q)) :
                getTags(doc, q)[i] = BeginMarker(last.id, last.tags)

\* the new range lies inside another one: two open ranges at a position
C6_Witness ==
    /\ last.op = "insertTags"
    /\ \E q \in (last.a + 1)..last.b :
          /\ Len(getTags(doc, q)) = 2
          /\ getTags(doc, q)[2] = BeginMarker(last.id, last.tags)

\* the tokens of a serialized document: [open, tag], [close, tag] or a character
RECURSIVE Tokens(_)
Tokens(out) ==
    IF out = <<>> THEN <<>>
    ELSE IF Head(out) = "<" /\ Len(out) >= 4 /\ out[2] = "/"
         THEN <<[t |-> "close", v |-> out[3]]>> \o Tokens(SubSeq(out, 5, Len(out)))
    ELSE IF Head(out) = "<" /\ Len(out) >= 3
         THEN <<[t |-> "open", v |-> out[2]]>> \o Tokens(SubSeq(out, 4, Len(out)))
    ELSE <<[t |-> "char", v |-> Head(out)]>> \o Tokens(Tail(out))

\* every closing token closes the innermost open tag, and nothing stays open
RECURSIVE Nested(_, _)
Nested(toks, open) ==
    IF toks = <<>> THEN open = <<>>
    ELSE IF Head(toks).t = "open" THEN Nested(Tail(toks), Append(open, Head(toks).v))
    ELSE IF Head(toks).t = "close"
         THEN /\ open # <<>>
              /\ open[Len(open)] = Head(toks).v
              /\ Nested(Tail(toks), SubSeq(open, 1, Len(open) - 1))
    ELSE Nested(Tail(toks), open)

Count(toks, t, v, n) == Cardinality({i \in 1..n : toks[i].t = t /\ toks[i].v = v})

\* per tag: no prefix closes more than it opens, and the whole closes all it opens
BalancedPerTag(toks) ==
    \A v \in {toks[i].v : i \in 1..Len(toks)} :
        /\ \A n \in 0..Len(toks) : Count(toks, "close", v, n) <= Count(toks, "open", v, n)
        /\ Count(toks, "close", v, Len(toks)) = Count(toks, "open", v, Len(toks))

\* two tag ranges that overlap without one holding the other
Crossing(d) ==
    \E b1, b2 \in BeginPositions(d) :
        \E e1 \in MatchesOf(d, KindEndTags, d[b1 + 1].mid.n) :
            \E e2 \in MatchesOf(d, KindEndTags, d[b2 + 1].mid.n) :
                b1 < b2 /\ b2 < e1 /\ e1 < e2

Text(d) == [i \in 1..Len(d) |-> d[i].ch]

\* C7, as claimed: after any sequence of insertTags calls with s <= e, toString()
\* has balanced matching open and close tokens: every closing token closes the
\* innermost open tag.
C7_ToStringNested ==
    last.op = "toString" => last.err = "none" /\ Nested(Tokens(last.res), <<>>)

\* C7, amended: toString() emits the text verbatim and the tags of a begin marker
\* in declared order; per tag the tokens are balanced; they are properly nested
\* whenever no two tag ranges cross; "AB" with insertTags(["b"], 0, 2) gives
\* "<b>AB</b>".
C7_ToStringBalanced ==
    last.op = "toString" =>
        /\ last.err = "none"
        /\ BalancedPerTag(Tokens(last.res))
        /\ (~Crossing(doc) => Nested(Tokens(last.res), <<>>))
        /\ SelectSeq(last.res, LAMBDA c : c \in Chars)
              = SelectSeq(Text(doc), LAMBDA c : c \in Chars)
        /\ (/\ Len(doc) = 4
            /\ doc[1].kind = KindBeginTags /\ doc[1].tags = <<"b">>
            /\ doc[2].ch = "A" /\ doc[3].ch = "B"
            /\ doc[4].kind = KindEndTags /\ doc[4].mid.n = doc[1].mid.n)
           => last.res = <<"<", "b", ">", "A", "B", "<", "/", "b", ">">>

\* a range of two tags around text has been serialized
C7_Witness ==
    /\ last.op = "toString"
    /\ Len(doc) = 4
    /\ doc[1].kind = KindBeginTags /\ doc[1].tags = <<"i", "b">>
    /\ doc[4].kind = KindEndTags
    /\ last.res = <<"<", "i", ">", "<", "b", ">", "A", "B", "<", "/", "b", ">", "<", "/", "i", ">">>

\* C8, as claimed: for every position p of [0, length], getPosition of the
\* segment getSegmentAndOffset(p) returns is p.
C8_RoundTripSegmentOnly ==
    (last.op = "getSegmentAndOffset" /\ last.a \in 0..Len(doc)) =>
        /\ last.err = "none"
        /\ getPosition(doc, last.res[1]) = last.a

\* C8, amended: for every position p of [0, length], getPosition of the segment
\* plus the offset getSegmentAndOffset(p) returns is p.
C8_RoundTripWithOffset ==
    (last.op = "getSegmentAndOffset" /\ last.a \in 0..Len(doc)) =>
        /\ last.err = "none"
        /\ getPosition(doc, last.res[1]) + last.res[2] = last.a

\* a position inside a Text segment of several characters
C8_Witness ==
    /\ last.op = "getSegmentAndOffset"
    /\ last.a \in 0..(Len(doc) - 1)
    /\ last.res[2] > 0

C10_EndOfDocumentRef ==
    /\ \A h \in Handles :
          (refs[h] # NoRef /\ refs[h].eot) =>
              /\ h \notin registry
              /\ localRefToPosition(doc, refs[h]) = Len(doc)
    /\ (last.op = "addLocalRef" /\ last.a >= last.n) => last.calls = <<>>
    /\ (last.op = "removeLocalRef" /\ last.res[1].eot) => last.calls = <<>>

\* an end-of-document reference made on a sequence that a remote insert then grew
C10_Witness ==
    /\ last.op = "remoteInsert"
    /\ last.n > 0
    /\ \E h \in Handles :
          /\ refs[h].eot
          /\ localRefToPosition(doc, refs[h]) = Len(doc)
          /\ \E g \in Handles : g \in registry

\* the references alive
Held == {h \in DOMAIN refs : refs[h] # NoRef}

\* C11: a reference made by addLocalRef(p) with 0 <= p <= length resolves to p,
\* and a local or remote insertion of k units at a position strictly less than
\* the position a reference resolves to moves it to that position plus k.
C11_RefFollowsInsert ==
    [][/\ (last'.op = "addLocalRef" /\ last'.a <= Len(doc)) =>
              localRefToPosition(doc', refs'[last'.b]) = last'.a
       /\ (last'.op \in {"insertText", "remoteInsert"}) =>
              \A h \in Held :
                  last'.a < localRefToPosition(doc, refs[h]) =>
                      localRefToPosition(doc', refs'[h]) =
                          localRefToPosition(doc, refs[h]) + (Len(doc') - Len(doc))]_vars

\* two units were inserted at the start of "AB" while a reference was on its
\* second unit: the reference is on the fourth unit now
C11_Witness ==
    /\ last.op \in {"insertText", "remoteInsert"}
    /\ last.a = 0
    /\ last.n = 2
    /\ Len(doc) = 4
    /\ \E h \in Held : h \in registry /\ localRefToPosition(doc, refs[h]) = 3

\* the segments of d are numbered 1..Segments(d)
Segments(d) == Cardinality({q \in 1..Len(d) : d[q].first})

\* C12: every reference made and not released resolves, in every state reached
\* by local and remote inserts and removes, to a position of [0, length]: it is
\* bound to a segment of the sequence or to no segment, never to a removed one.
C12_RefAlwaysResolves ==
    \A h \in Held :
        /\ refs[h].segment \in 0..Segments(doc)
        /\ localRefToPosition(doc, refs[h]) \in 0..Len(doc)

\* the whole sequence was removed under a reference bound to one of its units
C12_Witness ==
    /\ last.op \in {"remove", "remoteRemove"}
    /\ last.n > 0
    /\ Len(doc) = 0
    /\ \E h \in Held : ~refs[h].eot /\ localRefToPosition(doc, refs[h]) = 0

-----------------------------------------------------------------------------
(* The selection *)

Lesser(a, b) == IF a <= b THEN a ELSE b
Greater(a, b) == IF a <= b THEN b ELSE a

\* C13: in every state of the Caret the reported selection (start, end) has
\* 0 <= start <= end <= length, start the lesser and end the greater of the
\* clamped positions of anchor and focus, in whatever order they were set and
\* whatever edits the document has seen since.
C13_SelectionOrdered ==
    caret # NoCaret =>
        LET sel == selection(doc, refs, caret)
            a == localRefToPosition(doc, refs[caret.startRef])
            f == localRefToPosition(doc, refs[caret.endRef])
        IN  /\ 0 <= sel.start
            /\ sel.start <= sel.end
            /\ sel.end <= Len(doc)
            /\ a \in 0..Len(doc) /\ f \in 0..Len(doc)
            /\ sel.start = Lesser(a, f)
            /\ sel.end = Greater(a, f)

\* the anchor is after the focus, both on units of a document edited since
C13_Witness ==
    /\ last.op \in {"insertText", "insertComponent", "remove"}
    /\ caret.startRef \in registry
    /\ caret.endRef \in registry
    /\ caretAnchor(doc, refs, caret) > caretPosition(doc, refs, caret)
    /\ selection(doc, refs, caret).start = caretPosition(doc, refs, caret)

\* C14: setSelection(start, end) releases the references of the previous
\* selection and makes new ones: the references alive, and those registered
\* with the store, are at most the Caret's two, and right after the call the
\* reported selection is the lesser and the greater of start and end, clamped
\* to [0, length].
C14_SetSelectionReplaces ==
    caret # NoCaret =>
        /\ Held = {caret.startRef, caret.endRef}
        /\ registry \subseteq {caret.startRef, caret.endRef}
        /\ Cardinality(registry) <= 2
        /\ last.op = "setSelection" =>
              /\ selection(doc, refs, caret).start =
                    Lesser(Lesser(last.a, last.b), Len(doc))
              /\ selection(doc, refs, caret).end =
                    Lesser(Greater(last.a, last.b), Len(doc))

\* a selection set backwards, from past the end of the document to a unit of it
C14_Witness ==
    /\ last.op = "setSelection"
    /\ last.a > Len(doc)
    /\ last.b < Len(doc)
    /\ registry = {caret.endRef}
    /\ selection(doc, refs, caret) = [start |-> last.b, end |-> Len(doc)]

-----------------------------------------------------------------------------
(* sync *)

Calls(c) == {c.calls[i] : i \in 1..Len(c.calls)}

\* C15: sync() sets the window selection if and only if the selection it
\* computes is not the window selection already, and a second sync() in a
\* row sets nothing.
C15_SyncSetsOnlyIfDiffers ==
    last.op = "sync" =>
        /\ ("setBaseAndExtent" \in Calls(last)) <=> (last.a = 1)
        /\ dom.sel = SyncTarget(doc, refs, caret)
        /\ last.b = 2 => "setBaseAndExtent" \notin Calls(last)

\* a second sync() in a row, over a document with a selection on its units
C15_Witness ==
    /\ last.op = "sync"
    /\ last.b = 2
    /\ caret.startRef \in registry
    /\ dom.sel = SyncTarget(doc, refs, caret)
    /\ dom.sel # NoSelection

\* C16, as claimed: a second sync() in a row makes no position-to-node mapping call.
C16_SecondSyncMapsNothing ==
    (last.op = "sync" /\ last.b = 2) => "positionToNodeOffset" \notin Calls(last)

\* C16: a second sync() in a row maps startRef and endRef again, two
\* positionToNodeOffset calls, and makes no other call.
C16_SecondSyncMapsOnly ==
    (last.op = "sync" /\ last.b = 2) =>
        last.calls = <<"positionToNodeOffset", "positionToNodeOffset">>

\* a second sync() in a row with the focus on a unit of the document
C16_Witness ==
    /\ last.op = "sync"
    /\ last.b = 2
    /\ caret.endRef \in registry
    /\ Len(last.calls) = 2

-----------------------------------------------------------------------------
(* Focus leaving an inclusion *)

C18_DeferredToFrame ==
    [][/\ last'.op = "leave" =>
              /\ refs' = refs /\ registry' = registry /\ caret' = caret
              /\ dom'.sel = dom.sel
              /\ ~dom'.focus
              /\ last'.calls = <<"preventDefault", "stopPropagation", "requestAnimationFrame">>
              /\ dom'.raf = Append(dom.raf, [position |-> last'.b, torn |-> FALSE,
                                              delta |-> last'.b - last'.a])
       /\ last'.op = "frame" =>
              /\ dom.raf # <<>>
              /\ last'.a = Head(dom.raf).position
              /\ dom'.raf = Tail(dom.raf)
              /\ last'.calls = <<"focus", "setSelection", "sync">>
              /\ dom'.focus
              /\ dom'.sel = SyncTarget(doc', refs', caret')]_vars

\* an animation frame has set the selection after the inclusion focus left
C18_Witness ==
    /\ last.op = "frame"
    /\ last.a > 0
    /\ dom.focus
    /\ caretPosition(doc, refs, caret) = last.a
    /\ dom.sel = SyncTarget(doc, refs, caret)

\* C19, as claimed: an animation frame requested before the layout was torn
\* down and run after it does nothing.
C19_TornDownFrameNoOp ==
    (last.op = "frame" /\ last.res = <<TRUE>>) => last.calls = <<>>

\* C20, as claimed: once the layout is torn down the three listeners are
\* removed, and no event runs a handler of the Caret.
C20_UnsubscribedOnTeardown ==
    (caret # NoCaret /\ ~dom.alive) =>
        /\ dom.listeners = {}
        /\ last.op \in {"selectionchange", "focus", "leave"} => last.calls = <<>>

\* the positions of the inclusion tiles of the document
InclusionTiles(d) == {q \in 0..(Len(d) - 1) : d[q + 1].kind = KindInclusion}

\* C31, as claimed: the animation frame requested when focus left the one
\* inclusion of the document sets the selection next to the inclusion where it
\* is when the frame runs (its position, plus 1 if forward), within
\* [0, length], whatever edits came in between.
C31_FrameNextToInclusion ==
    (last.op = "frame" /\ Cardinality(InclusionTiles(doc)) = 1) =>
        \A tile \in InclusionTiles(doc) :
            /\ caretPosition(doc, refs, caret) = tile + last.b
            /\ caretAnchor(doc, refs, caret) = tile + last.b
            /\ caretPosition(doc, refs, caret) \in 0..Len(doc)

-----------------------------------------------------------------------------
(* Selections of the browser *)

\* C21, as claimed: a selectionchange with the anchor or the focus outside of
\* root raises no error and leaves startRef and endRef alone.
C21_OutsideIgnored ==
    (/\ last.op = "selectionchange"
     /\ (dom.sel.anchorNode = Outside \/ dom.sel.focusNode = Outside)) =>
        /\ last.err = "none"
        /\ last.calls = <<>>

-----------------------------------------------------------------------------
(* The forward mapping *)

\* the coordinate of a position chosen by the kind of the segment that owns the
\* position: directly at position 0 or in a Text segment, else after the segment
\* that ends at position - 1
ForwardByOwner(d, position) ==
    LET right == getSegmentAndOffset(d, position)
    IN  IF position = 0 \/ getDocSegmentKind(d, right.segment) = KindText
        THEN segmentAndOffsetToNodeAndOffset(right.segment, right.offset)
        ELSE LET left == getSegmentAndOffset(d, position - 1)
             IN  segmentAndOffsetToNodeAndOffset(left.segment,
                     left.offset + (IF getDocSegmentKind(d, left.segment) = KindText THEN 1 ELSE 0))

\* the reference addLocalRef(position) makes
FreshRef(d, position) ==
    [segment |-> NewLocalRef(d, position).segment, offset |-> NewLocalRef(d, position).offset,
     eot |-> position >= Len(d)]

\* C27: positionToNodeOffset maps a reference by the kind of the segment that
\* owns the position the reference resolves to; so a reference maps to the
\* coordinate of a reference freshly made at that position, and two references
\* that resolve to the same position map to the same coordinate.
C27_MappedByOwner ==
    /\ \A h \in Held :
          LET position == localRefToPosition(doc, refs[h])
          IN  /\ positionToNodeOffset(doc, refs[h]) = ForwardByOwner(doc, position)
              /\ positionToNodeOffset(doc, refs[h])
                    = positionToNodeOffset(doc, FreshRef(doc, position))
    /\ \A h, k \in Held :
          localRefToPosition(doc, refs[h]) = localRefToPosition(doc, refs[k]) =>
              positionToNodeOffset(doc, refs[h]) = positionToNodeOffset(doc, refs[k])

\* a reference whose Text segment remove has just removed, now at a marker that
\* follows a text
C27_Witness ==
    /\ last.op = "remove"
    /\ \E h \in Held :
          LET before == last.res[1][h]
              position == localRefToPosition(doc, refs[h])
          IN  /\ before.segment # endOfTextSegment
              /\ toPosition(last.pre, before) \in last.a..(last.b - 1)
              /\ last.pre[toPosition(last.pre, before) + 1].kind = KindText
              /\ position > 0
              /\ position < Len(doc)
              /\ doc[position + 1].kind = KindParagraph
              /\ doc[position].kind = KindText
              /\ positionToNodeOffset(doc, refs[h])
                    = segmentAndOffsetToNodeAndOffset(SegOrdinal(doc, position - 1), 1)

-----------------------------------------------------------------------------
(* Paragraph formats *)

ParagraphTiles(d) == {q \in 0..(Len(d) - 1) : d[q + 1].kind = KindParagraph}

\* the start of the paragraph of a position: the last paragraph tile at or
\* before it, else the start of the document
ParagraphStart(d, position) ==
    IF \E q \in ParagraphTiles(d) : q <= position
    THEN CHOOSE q \in ParagraphTiles(d) :
            q <= position /\ \A x \in ParagraphTiles(d) : x <= position => x <= q
    ELSE 0

\* C28: setFormat(p, tag) with a paragraph tile at the start of the paragraph of
\* p keeps the number of paragraph tiles, gives that tile the tag and annotates
\* exactly [start, start + 1); without one it inserts exactly one paragraph tile
\* with the tag at the start of the paragraph; nothing else changes.
C28_SetFormat ==
    last.op = "setFormat" =>
        LET start == ParagraphStart(last.pre, last.a)
            tag == last.tags[1]
        IN  IF start \in ParagraphTiles(last.pre)
            THEN /\ doc = [last.pre EXCEPT ![start + 1].tags = <<tag>>]
                 /\ ParagraphTiles(doc) = ParagraphTiles(last.pre)
                 /\ last.groups
                      = <<<<[type |-> "annotate", pos1 |-> start, pos2 |-> start + 1,
                             seg |-> <<>>, props |-> {[key |-> "tag", value |-> tag]}]>>>>
            ELSE /\ Len(doc) = Len(last.pre) + 1
                 /\ doc[start + 1] = ParagraphMarker(tag)
                 /\ \A q \in 1..start : doc[q] = last.pre[q]
                 /\ \A q \in (start + 1)..Len(last.pre) :
                       [doc[q + 1] EXCEPT !.first = TRUE] = [last.pre[q] EXCEPT !.first = TRUE]
                 /\ Cardinality(ParagraphTiles(doc)) = Cardinality(ParagraphTiles(last.pre)) + 1
                 /\ Len(last.groups) = 1 /\ Len(last.groups[1]) = 1
                 /\ last.groups[1][1].type = "insert"

\* the tag of a paragraph tile after a text changed by setFormat at the text
\* that follows the tile
C28_Witness ==
    /\ last.op = "setFormat"
    /\ last.b > 0
    /\ last.a > last.b
    /\ last.pre[last.b + 1].kind = KindParagraph
    /\ last.pre[last.b + 1].tags # last.tags
    /\ doc[last.b + 1].tags = last.tags
    /\ Len(doc) = Len(last.pre)

\* the selectionchange handled was the one sync caused by setting the window
\* selection
EchoOfSync == last.op = "selectionchange" /\ last.id = 1 /\ last.calls = <<"setSelection">>

Reported == <<caretAnchor(doc, refs, caret), caretPosition(doc, refs, caret)>>

\* C30, as claimed: a position mapped forward by sync and back by the
\* selectionchange that follows is the same position again, so the selection is
\* what it was before; position 0 before a leading marker included.
C30_RoundTripEverywhere == EchoOfSync => Reported = last.pre

\* position 0 before a leading marker comes back as 1
Nudged(p) == IF p = 0 /\ Len(doc) > 0 /\ doc[1].kind # KindText THEN 1 ELSE p

\* C30: a position mapped forward by sync and back by the selectionchange that
\* follows, the coordinate not being a <br> placeholder, is the same position
\* again, except position 0 when the first segment is not Text: it maps forward
\* to offset 0 of that segment and back to position 1.
C30_RoundTripButAtLeadingMarker ==
    (EchoOfSync /\ last.res = <<FALSE, FALSE>>) =>
        Reported = <<Nudged(last.pre[1]), Nudged(last.pre[2])>>

\* the caret at position 0 before a leading paragraph tile has moved to 1, while
\* the anchor after two tiles has stayed
C30_Witness ==
    /\ EchoOfSync
    /\ last.res = <<FALSE, FALSE>>
    /\ Len(doc) > 1
    /\ doc[1].kind = KindParagraph
    /\ doc[2].kind = KindParagraph
    /\ last.pre = <<2, 0>>
    /\ Reported = <<2, 1>>

-----------------------------------------------------------------------------
(* The ops of remove *)

\* the ops of the one group remove submitted
RemovedRanges == last.groups[1]

NonEmptyRanges(ops) == \A i \in 1..Len(ops) : ops[i].pos1 < ops[i].pos2

DisjointRanges(ops) ==
    \A i, j \in 1..Len(ops) :
        i # j => (ops[i].pos2 <= ops[j].pos1 \/ ops[j].pos2 <= ops[i].pos1)

DescendingStarts(ops) == \A i \in 1..(Len(ops) - 1) : ops[i].pos1 > ops[i + 1].pos1

\* the units of d outside of every range
WithoutUnion(d, ops) ==
    LET kept(q) == \A i \in 1..Len(ops) : ~(ops[i].pos1 <= q - 1 /\ q - 1 < ops[i].pos2)
        F[q \in 0..Len(d)] ==
            IF q = 0 THEN <<>> ELSE IF kept(q) THEN Append(F[q - 1], d[q]) ELSE F[q - 1]
    IN  F[Len(d)]

Units(d) == [q \in 1..Len(d) |-> [d[q] EXCEPT !.first = TRUE]]

\* C25, as claimed: the ops remove submits in its group are non-empty ranges,
\* pairwise disjoint, in strictly descending order of start, and applied in
\* that order they remove the units of the union of the ranges.
C25_RemoveOpsNonEmpty ==
    last.op = "remove" =>
        /\ NonEmptyRanges(RemovedRanges)
        /\ DisjointRanges(RemovedRanges)
        /\ DescendingStarts(RemovedRanges)
        /\ Units(doc) = Units(WithoutUnion(last.pre, RemovedRanges))

-----------------------------------------------------------------------------
(* Toggling CSS classes *)

\* the units of [start, end) split in a first part that carries the class and a
\* second part that does not
HalfAndHalf(d, start, end, c) ==
    \E m \in (start + 1)..(end - 1) :
        /\ \A q \in (start + 1)..m : c \in d[q].css
        /\ \A q \in (m + 1)..end : c \notin d[q].css

ToggledHalves ==
    /\ last.op = "toggleCssClass"
    /\ "x" \in last.tags
    /\ HalfAndHalf(last.pre, last.a, last.b, "x")

\* C22, as claimed: toggling "x" over a span whose first half carries "x" and
\* whose second half does not flips each half: the first half ends without "x"
\* and the second half with it.
C22_TogglePerSubSpan ==
    ToggledHalves =>
        \A q \in (last.a + 1)..last.b : ("x" \in doc[q].css) = ("x" \notin last.pre[q].css)

\* C22: toggleCssClass decides once per class for the whole range: a class
\* carried by any segment of the range is removed from every segment of the
\* range, a class carried by none is added to every segment; so after toggling
\* "x" over a span whose first half carries it, neither half carries "x".
C22_ToggleWholeRange ==
    last.op = "toggleCssClass" =>
        \A c \in last.tags :
            LET carried == \E q \in (last.a + 1)..last.b : c \in last.pre[q].css
            IN  \A q \in (last.a + 1)..last.b : (c \in doc[q].css) = ~carried

C22_Witness ==
    /\ ToggledHalves
    /\ \A q \in (last.a + 1)..last.b : "x" \notin doc[q].css

\* the annotate calls of the last CSS operation, and the document each was made on
Annotations == [i \in 1..Len(last.groups) |-> last.groups[i][1]]
AnnotatedOn(i) == IF i = 1 THEN last.pre ELSE last.seen[i - 1]
Annotated(op, q) == op.pos1 <= q - 1 /\ q - 1 < op.pos2
ClassListOf(op) == CHOOSE c \in {pr.value : pr \in op.props} : TRUE

\* every annotate call changes the class list of all it covers, and what keeps
\* its class list is covered by no annotate call
AnnotatesChangedOnly ==
    /\ \A i \in 1..Len(Annotations) :
          /\ Annotations[i].pos1 < Annotations[i].pos2
          /\ \A q \in 1..Len(doc) :
                Annotated(Annotations[i], q) =>
                    AnnotatedOn(i)[q].css # ClassListOf(Annotations[i])
    /\ \A q \in 1..Len(doc) :
          doc[q].css = last.pre[q].css =>
              /\ \A i \in 1..Len(Annotations) : ~Annotated(Annotations[i], q)
              /\ doc[q] = last.pre[q] \/ doc[q] = [last.pre[q] EXCEPT !.first = TRUE]

CssOps == {"addCssClass", "removeCssClass", "toggleCssClass"}

\* C26, as claimed: addCssClass, removeCssClass and toggleCssClass annotate only
\* the sub-spans whose class list changes and leave the others alone; toggling
\* "x" over a span whose first half carries it annotates exactly two sub-spans.
C26_TwoSubSpansAnnotated ==
    /\ last.op \in CssOps => AnnotatesChangedOnly
    /\ (ToggledHalves /\ last.tags = {"x"}) => Len(Annotations) = 2

\* C26: addCssClass, removeCssClass and toggleCssClass annotate only the
\* sub-spans whose class list changes and leave the others alone; toggling "x"
\* over a span whose first half carries it annotates the segments of the first
\* half, where "x" is removed, and nothing of the second half.
C26_ChangedSubSpansAnnotated ==
    /\ last.op \in CssOps => AnnotatesChangedOnly
    /\ (ToggledHalves /\ last.tags = {"x"}) =>
          \A q \in (last.a + 1)..last.b :
              ("x" \in last.pre[q].css) = (\E i \in 1..Len(Annotations) : Annotated(Annotations[i], q))

C26_Witness ==
    /\ ToggledHalves
    /\ last.tags = {"x"}
    /\ Len(Annotations) = 1
    /\ "x" \in last.pre[Annotations[1].pos1 + 1].css
    /\ "x" \notin doc[Annotations[1].pos1 + 1].css

-----------------------------------------------------------------------------
(* ChannelDeltaConnection *)

\* private _handler: IDeltaHandler | undefined
NoHandler == 0

\* the handlers attached in the model: handler 1 has a rollback method, handler 2
\* has none
DeltaHandlers == {1, 2}
HasRollback(handler) == handler = 1

\* the messages and op contents passed through the connection
Contents == {1, 2}

NoChannel == [handler |-> NoHandler, connected |-> FALSE]

NoError == [classified |-> FALSE, name |-> "none", context |-> 0]

\* what a method of the handler does when called: it returns, or it throws an
\* error that carries an errorType already, or one that does not
Outcomes ==
    {NoError,
     [classified |-> TRUE, name |-> "usageError", context |-> 0],
     [classified |-> FALSE, name |-> "TypeError", context |-> 0]}

\* assert(condition, code) failing
AssertionError(code) == [classified |-> FALSE, name |-> code, context |-> 0]

\* DataProcessingError.wrapIfUnrecognized(error, codepath, message): an error
\* with an errorType is returned as it is, any other becomes a
\* DataProcessingError that carries the message
wrapIfUnrecognized(error, message) ==
    IF error.classified THEN error
    ELSE [classified |-> TRUE, name |-> "dataProcessingError", context |-> message]

\* get handler(): assert(!!this._handler, 0x177)
handler(ch) ==
    IF ch.handler # NoHandler
    THEN [err |-> NoError, handler |-> ch.handler]
    ELSE [err |-> AssertionError("0x177"), handler |-> NoHandler]

\* this.handler.method(arg): the calls that reach the handler and the error raised
Forward(ch, method, arg, outcome) ==
    IF handler(ch).err # NoError
    THEN [calls |-> <<>>, err |-> handler(ch).err]
    ELSE [calls |-> <<[handler |-> handler(ch).handler, method |-> method, arg |-> arg]>>,
          err |-> outcome]

ChannelCall(op, arg, was, outcome, f) ==
    /\ last' = [NoCall EXCEPT !.op = op, !.a = arg, !.id = was, !.res = <<outcome>>,
                              !.pre = <<channel.connected>>,
                              !.calls = f.calls, !.err = f.err]
    /\ UNCHANGED <<doc, refs, registry, attached, outbox, replica, rexp, caret, dom>>

\* attach(handler) replacing the handler attached before
attach_Replaces(h) ==
    /\ channel' = [channel EXCEPT !.handler = h]
    /\ ChannelCall("attach", h, channel.handler, NoError, [calls |-> <<>>, err |-> NoError])

\* attach(handler): assert(this._handler === undefined, 0x178)
attach(h) ==
    /\ channel' = IF channel.handler = NoHandler THEN [channel EXCEPT !.handler = h] ELSE channel
    /\ ChannelCall("attach", h, channel.handler, NoError,
                   [calls |-> <<>>,
                    err |-> IF channel.handler = NoHandler THEN NoError
                            ELSE AssertionError("0x178")])

\* setConnectionState(connected): the field is assigned before the handler is looked up
setConnectionState(connected, outcome) ==
    /\ channel' = [channel EXCEPT !.connected = connected]
    /\ ChannelCall("setConnectionState", connected, channel.handler, outcome,
                   Forward(channel, "setConnectionState", connected, outcome))

\* process with an empty catch block
Process_Swallows(ch, message, outcome) ==
    [Forward(ch, "process", message, outcome) EXCEPT !.err = NoError]

\* try { this.handler.process(message, local, localOpMetadata) }
\* catch (error) { throw DataProcessingError.wrapIfUnrecognized(error, ..., message) }
Process(ch, message, outcome) ==
    LET f == Forward(ch, "process", message, outcome)
    IN  [f EXCEPT !.err = IF f.err # NoError THEN wrapIfUnrecognized(f.err, message) ELSE NoError]

process(message, outcome) ==
    /\ UNCHANGED channel
    /\ ChannelCall("process", message, channel.handler, outcome, Process(channel, message, outcome))

reSubmit(content, outcome) ==
    /\ UNCHANGED channel
    /\ ChannelCall("reSubmit", content, channel.handler, outcome,
                   Forward(channel, "reSubmit", content, outcome))

\* rollback(content, localOpMetadata)
rollback(content, outcome) ==
    /\ UNCHANGED channel
    /\ ChannelCall("rollback", content, channel.handler, outcome,
                   IF handler(channel).err # NoError
                   THEN [calls |-> <<>>, err |-> handler(channel).err]
                   ELSE IF ~HasRollback(handler(channel).handler)
                   THEN [calls |-> <<>>,
                         err |-> [classified |-> FALSE, name |-> "Handler doesn't support rollback",
                                  context |-> 0]]
                   ELSE Forward(channel, "rollback", content, outcome))

applyStashedOp(content, outcome) ==
    /\ UNCHANGED channel
    /\ ChannelCall("applyStashedOp", content, channel.handler, outcome,
                   Forward(channel, "applyStashedOp", content, outcome))

\* C23: when the attached handler throws while processing a message, process
\* throws too: an error that has an errorType as it is, any other error as a
\* DataProcessingError that carries the message; when the handler returns,
\* process returns, and handler.process has been called exactly once.
C23_ProcessNeverSwallows ==
    (last.op = "process" /\ channel.handler # NoHandler) =>
        LET thrown == last.res[1]
        IN  /\ last.calls = <<[handler |-> channel.handler, method |-> "process", arg |-> last.a]>>
            /\ thrown = NoError => last.err = NoError
            /\ (thrown # NoError /\ thrown.classified) => last.err = thrown
            /\ (thrown # NoError /\ ~thrown.classified) =>
                   last.err = [classified |-> TRUE, name |-> "dataProcessingError",
                               context |-> last.a]

C23_Witness ==
    /\ last.op = "process"
    /\ channel.handler # NoHandler
    /\ last.res[1].name = "TypeError"
    /\ last.err.name = "dataProcessingError"
    /\ last.err.context = last.a

ForwardingOps == {"setConnectionState", "process", "reSubmit", "rollback", "applyStashedOp"}

\* C29: attach succeeds once; a second attach fails and the first handler stays.
\* A forwarding operation called before attach fails and reaches no handler;
\* called after attach it reaches the attached handler exactly once, except
\* rollback on a handler without a rollback method, which fails.
C29_OneAttachThenForward ==
    /\ last.op = "attach" =>
          IF last.id = NoHandler
          THEN last.err = NoError /\ channel.handler = last.a
          ELSE last.err # NoError /\ channel.handler = last.id
    /\ (last.op \in ForwardingOps /\ channel.handler = NoHandler) =>
          last.err # NoError /\ last.calls = <<>>
    /\ (last.op \in ForwardingOps /\ channel.handler # NoHandler) =>
          IF last.op = "rollback" /\ ~HasRollback(channel.handler)
          THEN last.err.name = "Handler doesn't support rollback" /\ last.calls = <<>>
          ELSE last.calls = <<[handler |-> channel.handler, method |-> last.op, arg |-> last.a]>>

C29_Witness ==
    /\ last.op = "attach"
    /\ last.id = 1
    /\ last.a = 2
    /\ last.err.name = "0x178"
    /\ channel.handler = 1

\* C32, as claimed: connected is the value given to the constructor or the
\* argument of the last setConnectionState call that succeeded: a
\* setConnectionState call that succeeds sets it to its argument, and a
\* setConnectionState call that fails, or any other call, leaves it as it was.
C32_ConnectedSetOnSuccess ==
    last.op \in ForwardingOps \cup {"attach"} =>
        IF last.op = "setConnectionState" /\ last.err = NoError
        THEN channel.connected = last.a
        ELSE channel.connected = last.pre[1]

-----------------------------------------------------------------------------
(* getWithRetryForTokenRefresh, as the tests of the ODSP driver's errors use it *)

\* the status codes the tests throw
StatusCodes == {"400", "401", "invalidFileNameStatusCode", "fetchIncorrectResponse"}

\* the claims of the www-authenticate header of testResponseWithInsufficientClaims
NoClaims == "undefined"
InsufficientClaims == "{access_token:{nbf:{essential:true, value:1597959090}}}"

\* the errorType throwOdspNetworkError gives to a status code
errorType(statusCode) ==
    IF statusCode = "401" THEN "authorizationError"
    ELSE IF statusCode = "fetchIncorrectResponse" THEN "incorrectServerResponse"
    ELSE IF statusCode = "invalidFileNameStatusCode" THEN "invalidFileNameError"
    ELSE "genericNetworkError"

\* return 1
Returns(value) == [returns |-> TRUE, value |-> value, errorType |-> "none", claims |-> NoClaims]

\* throwOdspNetworkError(errorMessage, statusCode, response): the error thrown;
\* an authorization error carries the claims of the response
throwOdspNetworkError(statusCode, claims) ==
    [returns |-> FALSE, value |-> 0, errorType |-> errorType(statusCode),
     claims |-> IF statusCode = "401" THEN claims ELSE NoClaims]

\* what one invocation of a callback can do
Results ==
    {Returns(1)}
    \cup {throwOdspNetworkError(code, NoClaims) : code \in StatusCodes}
    \cup {throwOdspNetworkError("401", InsufficientClaims)}

\* a callback, by what it does without refresh, with refresh, and with refresh
\* and the claims of the insufficient-claims response
Callbacks == [plain : Results, refreshed : Results, claimed : Results]

\* get(options)
Invoke(get, options) ==
    IF ~options.refresh THEN get.plain
    ELSE IF options.claims = InsufficientClaims THEN get.claimed
    ELSE get.refreshed

\* every failure retried with a refreshed token
RetriesWithRefresh_Always(error) == TRUE

\* the failures after which the callback is invoked again with refresh
RetriesWithRefresh(error) == error.errorType \in {"authorizationError", "incorrectServerResponse"}

\* getWithRetryForTokenRefresh(get): the options of its invocations of get and
\* what it resolves to or rejects with
GetWithRetryForTokenRefresh(get) ==
    LET options == [refresh |-> FALSE, claims |-> NoClaims]
        first == Invoke(get, options)
        again == [refresh |-> TRUE, claims |-> first.claims]
    IN  IF first.returns THEN [calls |-> <<options>>, result |-> first]
        ELSE IF RetriesWithRefresh(first)
        THEN [calls |-> <<options, again>>, result |-> Invoke(get, again)]
        ELSE [calls |-> <<options>>, result |-> first]

getWithRetryForTokenRefresh(get) ==
    /\ last' = [NoCall EXCEPT !.op = "getWithRetryForTokenRefresh", !.pre = get,
                              !.calls = GetWithRetryForTokenRefresh(get).calls,
                              !.res = <<GetWithRetryForTokenRefresh(get).result>>]
    /\ UNCHANGED <<doc, refs, registry, attached, channel, outbox, replica, rexp, caret, dom>>

\* "Access Denied retries", "invalid file name - no retry", "fetch incorrect
\* response retries": options.refresh ? 1 : throwOdspNetworkError("some error", code)
RefreshOrThrow(statusCode) ==
    [plain |-> throwOdspNetworkError(statusCode, NoClaims),
     refreshed |-> Returns(1), claimed |-> Returns(1)]

\* "AuthorizationError errors retries with insufficient claims"
ClaimsOrThrow ==
    [plain |-> throwOdspNetworkError("401", InsufficientClaims),
     refreshed |-> throwOdspNetworkError("401", InsufficientClaims),
     claimed |-> Returns(1)]

-----------------------------------------------------------------------------
(* Specifications *)

InitCommon ==
    /\ channel = NoChannel
    /\ caret = NoCaret
    /\ dom = NoDom
    /\ doc = <<>>
    /\ refs = [h \in Handles |-> NoRef]
    /\ registry = {}
    /\ last = NoCall
    /\ outbox = <<>>
    /\ replica = <<>>
    /\ rexp = <<>>

Init == InitCommon /\ attached = FALSE

Next ==
    \/ \E p \in 0..Len(doc), t \in Texts : insertText(p, t)
    \/ \E s \in 0..Len(doc) : \E e \in s..Len(doc) : remove(s, e)
    \/ \E s \in 0..Len(doc) : \E e \in s..Len(doc) : \E t \in TagLists : insertTags(t, s, e)
    \/ \E p \in (0 - 1)..(Len(doc) + 1) : getSegmentAndOffsetCall(p)

Spec == Init /\ [][Next]_vars

\* the document edited and queried, with its groups sent to a remote replica
InitRepl == InitCommon /\ attached = TRUE

NextRepl ==
    \/ \E p \in 0..Len(doc), t \in Texts : insertText(p, t)
    \/ \E s \in 0..Len(doc) : \E e \in s..Len(doc) : remove(s, e)
    \/ \E s \in 0..Len(doc) : \E e \in s..Len(doc) : insertTags(<<"b">>, s, e)
    \/ replicaProcess

SpecRepl == InitRepl /\ [][NextRepl]_vars

\* documents built by insertText and insertTags alone, and serialized
NextIns ==
    \/ \E p \in 0..Len(doc), t \in Texts : insertText(p, t)
    \/ \E s \in 0..Len(doc) : \E e \in s..Len(doc) : \E t \in TagLists : insertTags(t, s, e)
    \/ toStringCall

SpecIns == Init /\ [][NextIns]_vars

\* text documents with local references, edited locally and by remote clients
NextRefs ==
    \/ \E p \in 0..Len(doc), t \in Texts : insertText(p, t)
    \/ \E s \in 0..Len(doc) : \E e \in s..Len(doc) : remove(s, e)
    \/ \E p \in 0..Len(doc), t \in Texts : remoteInsert(p, t)
    \/ \E s \in 0..Len(doc) : \E e \in s..Len(doc) : remoteRemove(s, e)
    \/ \E p \in 0..(Len(doc) + 1) : addLocalRef(p)
    \/ \E h \in Handles : removeLocalRef(h)

SpecRefs == Init /\ [][NextRefs]_vars

\* a Caret constructed over the empty document: startRef = addLocalRef(0),
\* endRef = addLocalRef(0), and the three listeners added
InitCaret ==
    /\ doc = <<>>
    /\ refs = [h \in CaretHandles |->
                 IF h \in Handles
                 THEN [segment |-> NewLocalRef(<<>>, 0).segment,
                       offset |-> NewLocalRef(<<>>, 0).offset, eot |-> TRUE]
                 ELSE NoRef]
    /\ registry = {}
    /\ caret = [startRef |-> 1, endRef |-> 2]
    /\ dom = [sel |-> NoSelection, listeners |-> Channels, raf |-> <<>>,
              focus |-> FALSE, alive |-> TRUE]
    /\ last = NoCall
    /\ channel = NoChannel
    /\ attached = FALSE
    /\ outbox = <<>>
    /\ replica = <<>>
    /\ rexp = <<>>

\* the window selections the browser reports here: collapsed ones, before a node
Selections(d) ==
    {sel \in [anchorNode : Nodes(d), anchorOffset : {0}, focusNode : Nodes(d), focusOffset : {0}] :
        sel.anchorNode = sel.focusNode}

\* a <br> element stands for an empty paragraph or tag only
CanBeBr(d, node, br) ==
    br => (node # Outside /\ getDocSegmentKind(d, node) \notin {KindText, KindEndOfText})

\* a Caret over a document that is edited, with selections set by the editor
NextCaret ==
    \/ \E p \in 0..Len(doc) : Len(doc) < MaxCaretLen /\ insertText(p, <<"A">>)
    \/ \E p \in 0..Len(doc) : Len(doc) < MaxCaretLen /\ insertComponent(p)
    \/ \E s \in 0..Len(doc) : \E e \in s..Len(doc) : remove(s, e)
    \/ \E s \in 0..(Len(doc) + 1), e \in 0..(Len(doc) + 1) : setSelection(s, e)
    \/ collapseForward

SpecCaret == InitCaret /\ [][NextCaret]_vars

\* a Caret synchronized with the window selection, with focus leaving
\* inclusions and the layout torn down
NextSync ==
    \/ Len(doc) < MaxCaretLen /\ insertText(Len(doc), <<"A">>)
    \/ \E p \in 0..Len(doc) : Len(doc) < MaxCaretLen /\ insertComponent(p)
    \/ \E s \in 0..(Len(doc) + 1) : setSelection(s, s)
    \/ sync
    \/ focusEvent
    \/ \E sel \in Selections(doc), br \in BOOLEAN :
          /\ CanBeBr(doc, sel.focusNode, br)
          /\ onSelectionChange(sel, br, br, "undefined")
    \/ \E seg \in 1..Len(doc), dir \in Directions :
          /\ seg \in Nodes(doc)
          /\ leaveEvent(seg, dir)
    \/ animationFrame
    \/ teardown

SpecSync == InitCaret /\ [][NextSync]_vars

\* the window selections with either end on any node, before it
AnySelections(d) ==
    [anchorNode : Nodes(d), anchorOffset : {0}, focusNode : Nodes(d), focusOffset : {0}]

\* a Caret told of window selections that reach outside of root
NextSel ==
    \/ Len(doc) < MaxCaretLen /\ insertText(Len(doc), <<"A">>)
    \/ \E p \in 0..Len(doc) : Len(doc) < MaxCaretLen /\ insertComponent(p)
    \/ \E sel \in AnySelections(doc), unknown \in Unknowns :
          onSelectionChange(sel, FALSE, FALSE, unknown)

SpecSel == InitCaret /\ [][NextSel]_vars

\* text inserted at the end, and the classes of any range added, removed or toggled
NextCss ==
    \/ \E text \in {<<"A">>, <<"A", "B">>} :
         Len(doc) + Len(text) <= MaxCssLen /\ insertText(Len(doc), text)
    \/ \E start \in 0..Len(doc), end \in 0..Len(doc), classNames \in SUBSET ClassNames :
         /\ start <= end
         /\ \/ addCssClass(start, end, classNames)
            \/ removeCssClass(start, end, classNames)
            \/ toggleCssClass(start, end, classNames)

SpecCss == Init /\ [][NextCss]_vars

\* a ChannelDeltaConnection constructed connected or not, and any of its methods
\* called with any argument, the handler's method returning or throwing
InitChannel ==
    /\ doc = <<>>
    /\ refs = [h \in Handles |-> NoRef]
    /\ registry = {}
    /\ last = NoCall
    /\ attached = FALSE
    /\ outbox = <<>>
    /\ replica = <<>>
    /\ rexp = <<>>
    /\ caret = NoCaret
    /\ dom = NoDom
    /\ channel \in [handler : {NoHandler}, connected : BOOLEAN]

NextChannel ==
    \/ \E h \in DeltaHandlers : attach(h)
    \/ \E connected \in BOOLEAN, outcome \in Outcomes : setConnectionState(connected, outcome)
    \/ \E message \in Contents, outcome \in Outcomes : process(message, outcome)
    \/ \E content \in Contents, outcome \in Outcomes : reSubmit(content, outcome)
    \/ \E content \in Contents, outcome \in Outcomes : rollback(content, outcome)
    \/ \E content \in Contents, outcome \in Outcomes : applyStashedOp(content, outcome)

SpecChannel == InitChannel /\ [][NextChannel]_vars

\* getWithRetryForTokenRefresh called with any callback
NextRetry == \E get \in Callbacks : getWithRetryForTokenRefresh(get)

SpecRetry == Init /\ [][NextRetry]_vars

\* texts and paragraph tiles inserted anywhere, and the format of the paragraph
\* of any position set
NextPara ==
    \/ \E p \in 0..Len(doc) : Len(doc) < MaxTileLen /\ insertText(p, <<"A">>)
    \/ \E p \in 0..Len(doc), tag \in ParagraphTags :
         Len(doc) < MaxTileLen /\ insertParagraph(p, tag)
    \/ \E p \in 0..Len(doc), tag \in ParagraphTags : setFormat(p, tag)

SpecPara == Init /\ [][NextPara]_vars

\* a Caret over a document of texts and paragraph tiles that is edited, its
\* selection set by the editor
NextSlide ==
    \/ \E p \in 0..Len(doc) : Len(doc) < MaxTileLen /\ insertText(p, <<"A">>)
    \/ \E p \in 0..Len(doc) : Len(doc) < MaxTileLen /\ insertParagraph(p, "p")
    \/ \E s \in 0..Len(doc) : \E e \in s..Len(doc) : remove(s, e)
    \/ \E s \in 0..Len(doc), e \in 0..Len(doc) : setSelection(s, e)

SpecSlide == InitCaret /\ [][NextSlide]_vars

\* a Caret over a document of texts and paragraph tiles, its selection set by
\* the editor, synchronized with the window selection, and told of the window
\* selection it has set
NextMap ==
    \/ \E p \in 0..Len(doc) : Len(doc) < MaxCaretLen /\ insertText(p, <<"A">>)
    \/ \E p \in 0..Len(doc) : Len(doc) < MaxCaretLen /\ insertParagraph(p, "p")
    \/ \E s \in 0..Len(doc), e \in 0..Len(doc) : setSelection(s, e)
    \/ sync
    \/ \E anchorBr \in BOOLEAN, focusBr \in BOOLEAN :
          /\ last.op = "sync"
          /\ CanBeBr(doc, dom.sel.anchorNode, anchorBr)
          /\ CanBeBr(doc, dom.sel.focusNode, focusBr)
          /\ onSelectionChange(dom.sel, anchorBr, focusBr, "undefined")

SpecMap == InitCaret /\ [][NextMap]_vars

\* a Caret over a document with one inclusion, edited here and by remote clients
\* while an animation frame requested by the leave listener is pending
NextLeave ==
    \/ \E p \in 0..Len(doc) : Len(doc) < MaxCaretLen /\ insertText(p, <<"A">>)
    \/ \E p \in 0..Len(doc) : Len(doc) < MaxCaretLen /\ remoteInsert(p, <<"A">>)
    \/ \E p \in 0..Len(doc) :
          /\ Len(doc) < MaxCaretLen
          /\ InclusionTiles(doc) = {}
          /\ insertComponent(p)
    \/ \E s \in 0..Len(doc) : \E e \in s..Len(doc) : remove(s, e)
    \/ \E seg \in 1..Len(doc), dir \in Directions :
          /\ seg \in Nodes(doc)
          /\ leaveEvent(seg, dir)
    \/ animationFrame

SpecLeave == InitCaret /\ [][NextLeave]_vars

====
